---- MODULE Spec2Model ----
(***************************************************************************)
(* The VMBus client protocol engine (vmbus_client/src/lib.rs): the         *)
(* ClientTask event loop, its connection state machine and its channel and *)
(* GPADL registries.  Every handler of the task is an operator on the task *)
(* record `t`; an action of the loop dispatches one event to its handler.  *)
(***************************************************************************)
EXTENDS Integers, Sequences, FiniteSets, TLC

\* ------------------------------------------------------------------ bounds

\* Channel ids the host offers: 0 .. MaxChannelId.
MaxChannelId == 0
\* GPADL ids callers use: 1 .. MaxGpadlId.
MaxGpadlId == 2
\* Request streams of rescinded offers alive at once under one channel id:
\* endpoints that the callers have not dropped, beside the registered channel's.
MaxStreams == 1
\* Requests or messages sent to the loop and not yet received, per source.
MaxQueue == 2
\* Messages a paused source still takes in before it reports EOF.
MaxLate == 1

ChannelIds == 0 .. MaxChannelId
\* A channel id beside those: the second channel of the specifications that
\* are about two channels at once.
OtherChannel == MaxChannelId + 1
\* The ids a request stream can be tagged with.
StreamIds == ChannelIds \cup {OtherChannel}
GpadlIds == 1 .. MaxGpadlId

\* ------------------------------------------------------- protocol constants

Iron == 262148
Copper == 327680
SINT == 2
VTL == 0
STATUS_SUCCESS == 0
STATUS_UNSUCCESSFUL == 1

\* const SUPPORTED_VERSIONS: oldest first.
SUPPORTED_VERSIONS == <<Iron, Copper>>

\* FeatureFlags is a 32-bit mask.  Bit 0 guest_specified_signal_parameters,
\* bit 1 channel_interrupt_redirection, bit 2 modify_connection, bit 3
\* client_id; UnknownFeatureBit is a bit outside FeatureFlags::all().
FeatureFlagsAll == 15
UnknownFeatureBit == 1024
FeatureFlagsNew == 0
SUPPORTED_FEATURE_FLAGS == FeatureFlagsAll

RECURSIVE BitAnd(_, _)
BitAnd(a, b) ==
    IF a = 0 \/ b = 0 THEN 0
    ELSE (a % 2) * (b % 2) + 2 * BitAnd(a \div 2, b \div 2)

\* 2^16: `as u16` keeps the low sixteen bits of a channel id.
U16 == 65536

Bit(mask, n) == (mask \div (2 ^ n)) % 2 = 1
guest_specified_signal_parameters(flags) == Bit(flags, 0)
channel_interrupt_redirection(flags) == Bit(flags, 1)
modify_connection(flags) == Bit(flags, 2)

\* FeatureFlags::from(u32): the bitfield wraps the raw mask and keeps every
\* bit of it, the bits outside FeatureFlags::all() included.
FeatureFlagsFrom(raw) == raw

\* Option<T> as a sequence of at most one element.
None == <<>>
Some(x) == <<x>>

\* ----------------------------------------------------------- input domains

\* Feature masks a host reports in VersionResponse2.
HostMasks == {1, 2, 4 + UnknownFeatureBit, FeatureFlagsAll}
\* InitiateContactRequest values (monitor_page is None throughout).
ContactRequests == [target_message_vp : {0, 1}, client_id : {0}]
ConnectionStates == {"SUCCESSFUL", "FAILED_LOW_RESOURCES"}
Statuses == {STATUS_SUCCESS, STATUS_UNSUCCESSFUL}
\* Offer descriptors (interface/instance id) a host sends for a channel id.
OfferPayloads == {"a", "b"}

\* ------------------------------------------------------------------- state

VARIABLES
    state,              \* ClientTask::state : ClientState
    running,            \* ClientTask::running
    modify_request,     \* ClientTask::modify_request : Option<Rpc>
    channels,           \* ClientTaskInner::channels
    gpadls,             \* ClientTaskInner::gpadls
    teardown_gpadls,    \* ClientTaskInner::teardown_gpadls
    channel_requests,   \* ClientTaskInner::channel_requests (live request streams)
    out,                \* what the last dispatched event sent, in order
    ev,                 \* the last dispatched event
    panic,              \* "none", or why the task aborted
    queues,             \* sent and not yet received: the facade's requests
                        \* (client, client_closed), the host's messages (synic),
                        \* the requests on the endpoints of each id, each with
                        \* the endpoint it was sent on (channel); draining:
                        \* handle_stop has paused the source and is in its
                        \* drain loop; late: messages taken in since the pause
    saved,              \* the SavedState the caller holds: None or Some(snapshot)
    exited              \* run() has returned

vars == <<state, running, modify_request, channels, gpadls, teardown_gpadls,
          channel_requests, out, ev, panic, queues, saved, exited>>

\* ClientState values.
Disconnected == [kind |-> "Disconnected", version |-> 0, feature_flags |-> 0, request |-> None]
Connecting(version, request) ==
    [kind |-> "Connecting", version |-> version, feature_flags |-> 0, request |-> Some(request)]
WithVersion(kind, info) ==
    [kind |-> kind, version |-> info.version, feature_flags |-> info.feature_flags,
     request |-> None]
Connected(info) == WithVersion("Connected", info)
RequestingOffers(info) == WithVersion("RequestingOffers", info)
Disconnecting(info) == WithVersion("Disconnecting", info)

VersionInfo(version, feature_flags) == [version |-> version, feature_flags |-> feature_flags]

\* ClientState::get_version
get_version(s) ==
    IF s.kind \in {"Connected", "RequestingOffers", "Disconnecting"}
    THEN Some(VersionInfo(s.version, s.feature_flags))
    ELSE None

\* The task record the handlers work on.
Task ==
    [state |-> state, modify_request |-> modify_request, channels |-> channels,
     gpadls |-> gpadls, teardown_gpadls |-> teardown_gpadls,
     channel_requests |-> channel_requests, out |-> <<>>, panic |-> "none"]

\* ----------------------------------------------------------------- sending

Emit(t, sink, msg) == [t EXCEPT !.out = Append(@, [sink |-> sink, msg |-> msg])]

\* send_message / ClientTaskInner::send: one post_message to the synic.
send_message(t, msg) == Emit(t, "synic", msg)

\* panic!, a failed assert!/expect()/unwrap(): the task aborts.  What it had
\* sent stays sent; the task's own state is gone with it.
Panic(t, why) ==
    [state |-> Disconnected, modify_request |-> None, channels |-> <<>>, gpadls |-> <<>>,
     teardown_gpadls |-> <<>>,
     channel_requests |-> [c \in StreamIds |-> [cur |-> FALSE, stale |-> 0]],
     out |-> t.out, panic |-> why]

Posted(o) == SelectSeq(o, LAMBDA e : e.sink = "synic")
SentOn(o, sink) == SelectSeq(o, LAMBDA e : e.sink = sink)

\* ------------------------------------------------------ connection handlers

\* Variant: a Connected client may connect again.
handle_initiate_contact_reconnect(t, request, version) ==
    IF t.state.kind \in {"Disconnected", "Connected"}
    THEN LET feature_flags ==
                 IF version >= Copper THEN SUPPORTED_FEATURE_FLAGS ELSE FeatureFlagsNew
             initiate_contact ==
                 [type |-> "InitiateContact", version_requested |-> version,
                  target_message_vp |-> request.target_message_vp,
                  sint |-> SINT, vtl |-> VTL, feature_flags |-> feature_flags]
             msg ==
                 [type |-> "InitiateContact2", version_requested |-> version,
                  target_message_vp |-> request.target_message_vp,
                  sint |-> SINT, vtl |-> VTL, feature_flags |-> feature_flags,
                  client_id |-> request.client_id]
             t1 == [t EXCEPT !.state = Connecting(version, request)]
         IN  IF version < Copper
             THEN send_message(t1, initiate_contact)
             ELSE send_message(t1, msg)
    ELSE Emit(t, "connect", [reply |-> None])

handle_initiate_contact(t, request, version) ==
    IF t.state.kind = "Disconnected"
    THEN LET feature_flags ==
                 IF version >= Copper THEN SUPPORTED_FEATURE_FLAGS ELSE FeatureFlagsNew
             initiate_contact ==
                 [type |-> "InitiateContact", version_requested |-> version,
                  target_message_vp |-> request.target_message_vp,
                  sint |-> SINT, vtl |-> VTL, feature_flags |-> feature_flags]
             msg ==
                 [type |-> "InitiateContact2", version_requested |-> version,
                  target_message_vp |-> request.target_message_vp,
                  sint |-> SINT, vtl |-> VTL, feature_flags |-> feature_flags,
                  client_id |-> request.client_id]
             t1 == [t EXCEPT !.state = Connecting(version, request)]
         IN  IF version < Copper
             THEN send_message(t1, initiate_contact)
             ELSE send_message(t1, msg)
    ELSE Emit(t, "connect", [reply |-> None])

\* Variant: a refused RequestOffers is dropped without the None marker.
handle_request_offers_silent(t) ==
    IF t.state.kind = "Connected"
    THEN send_message([t EXCEPT !.state = RequestingOffers(get_version(t.state)[1])],
                      [type |-> "RequestOffers"])
    ELSE t

handle_request_offers(t) ==
    IF t.state.kind = "Connected"
    THEN send_message([t EXCEPT !.state = RequestingOffers(get_version(t.state)[1])],
                      [type |-> "RequestOffers"])
    ELSE Emit(t, "offers", [item |-> "None"])

handle_unload(t) ==
    IF get_version(t.state) = None
    THEN Panic(t, "invalid state for unload")
    ELSE send_message([t EXCEPT !.state = Disconnecting(get_version(t.state)[1])],
                      [type |-> "Unload"])

\* Variant: a modify is accepted while another one is in flight.
handle_modify_overlapping(t, request) ==
    IF ~(t.state.kind = "Connected" /\ modify_connection(t.state.feature_flags))
    THEN Emit(t, "rpc", [rpc |-> "modify", token |-> request.token,
                         connection_state |-> "FAILED_UNKNOWN_FAILURE"])
    ELSE send_message([t EXCEPT !.modify_request = Some(request)],
                      [type |-> "ModifyConnection", monitor_page |-> request.monitor_page])

handle_modify(t, request) ==
    IF ~(t.state.kind = "Connected" /\ modify_connection(t.state.feature_flags))
    THEN Emit(t, "rpc", [rpc |-> "modify", token |-> request.token,
                         connection_state |-> "FAILED_UNKNOWN_FAILURE"])
    ELSE IF t.modify_request # None
    THEN Emit(t, "rpc", [rpc |-> "modify", token |-> request.token,
                         connection_state |-> "FAILED_UNKNOWN_FAILURE"])
    ELSE send_message([t EXCEPT !.modify_request = Some(request)],
                      [type |-> "ModifyConnection", monitor_page |-> request.monitor_page])

\* Variant: the request goes out in the older format, without the silo id.
handle_tl_connect_v1(t, request) ==
    send_message(t, [type |-> "TlConnectRequest", service_id |-> request.service_id,
                     endpoint_id |-> request.endpoint_id])

handle_tl_connect(t, request) ==
    send_message(t, [type |-> "TlConnectRequest2", service_id |-> request.service_id,
                     endpoint_id |-> request.endpoint_id, silo_id |-> request.silo_id])

Last(s) == s[Len(s)]
Position(s, x) == CHOOSE i \in 1 .. Len(s) : s[i] = x

handle_client_request(t, request) ==
    CASE request.kind = "InitiateContact" ->
             handle_initiate_contact(t, request.request, Last(SUPPORTED_VERSIONS))
      [] request.kind = "RequestOffers" -> handle_request_offers(t)
      [] request.kind = "Unload" -> handle_unload(t)
      [] request.kind = "Modify" -> handle_modify(t, request.request)
      [] request.kind = "HvsockConnect" -> handle_tl_connect(t, request.request)

\* Variant: a rejected version is tried again instead of the next older one.
handle_version_response_retry_same(t, msg) ==
    LET old_state == t.state
        t0 == [t EXCEPT !.state = Disconnected]
    IN  IF old_state.kind = "Connecting"
        THEN LET version == old_state.version
                 request == old_state.request[1]
             IN  IF msg.version_supported > 0
                 THEN IF msg.connection_state # "SUCCESSFUL"
                      THEN Panic(t0, "Host encountered an error establishing the connection")
                      ELSE LET feature_flags ==
                                   IF version >= Copper
                                   THEN FeatureFlagsFrom(msg.supported_features)
                                   ELSE FeatureFlagsNew
                               info == VersionInfo(version, feature_flags)
                           IN  Emit([t0 EXCEPT !.state = Connected(info)],
                                    "connect", [reply |-> Some(info)])
                 ELSE LET index == Position(SUPPORTED_VERSIONS, version)
                      IN  IF index = 1
                          THEN Panic(t0, "Unable to negotiate a supported vmbus version")
                          ELSE handle_initiate_contact(t0, request, SUPPORTED_VERSIONS[index])
        ELSE t0

\* Variant: the accepted version is stored but the connect reply is not sent.
handle_version_response_no_reply(t, msg) ==
    LET old_state == t.state
        t0 == [t EXCEPT !.state = Disconnected]
    IN  IF old_state.kind = "Connecting"
        THEN LET version == old_state.version
                 request == old_state.request[1]
             IN  IF msg.version_supported > 0
                 THEN IF msg.connection_state # "SUCCESSFUL"
                      THEN Panic(t0, "Host encountered an error establishing the connection")
                      ELSE LET feature_flags ==
                                   IF version >= Copper
                                   THEN FeatureFlagsFrom(msg.supported_features)
                                   ELSE FeatureFlagsNew
                               info == VersionInfo(version, feature_flags)
                           IN  [t0 EXCEPT !.state = Connected(info)]
                 ELSE LET index == Position(SUPPORTED_VERSIONS, version)
                      IN  IF index = 1
                          THEN Panic(t0, "Unable to negotiate a supported vmbus version")
                          ELSE handle_initiate_contact(t0, request,
                                                       SUPPORTED_VERSIONS[index - 1])
        ELSE t0

\* msg is a VersionResponse2; a VersionResponse is converted by
\* VersionResponseInto before it gets here.
handle_version_response(t, msg) ==
    LET old_state == t.state
        t0 == [t EXCEPT !.state = Disconnected]
    IN  IF old_state.kind = "Connecting"
        THEN LET version == old_state.version
                 request == old_state.request[1]
             IN  IF msg.version_supported > 0
                 THEN IF msg.connection_state # "SUCCESSFUL"
                      THEN Panic(t0, "Host encountered an error establishing the connection")
                      ELSE LET feature_flags ==
                                   IF version >= Copper
                                   THEN FeatureFlagsFrom(msg.supported_features)
                                   ELSE FeatureFlagsNew
                               info == VersionInfo(version, feature_flags)
                           IN  Emit([t0 EXCEPT !.state = Connected(info)],
                                    "connect", [reply |-> Some(info)])
                 ELSE LET index == Position(SUPPORTED_VERSIONS, version)
                      IN  IF index = 1
                          THEN Panic(t0, "Unable to negotiate a supported vmbus version")
                          ELSE handle_initiate_contact(t0, request,
                                                       SUPPORTED_VERSIONS[index - 1])
        ELSE t0

\* From<VersionResponse> for VersionResponse2: no feature mask.
VersionResponseInto(msg) ==
    [type |-> "VersionResponse2", version_supported |-> msg.version_supported,
     connection_state |-> msg.connection_state, supported_features |-> 0]

\* --------------------------------------------------------- channel registry

ChannelOffered == [kind |-> "Offered", sink |-> 0]
ChannelOpening(sink) == [kind |-> "Opening", sink |-> sink]
ChannelOpened == [kind |-> "Opened", sink |-> 0]

GpadlOffered(sink) == [kind |-> "Offered", sink |-> sink]
GpadlCreated == [kind |-> "Created", sink |-> 0]
GpadlTearingDown == [kind |-> "TearingDown", sink |-> 0]

\* HashMap::remove / HashMap::insert
MapRemove(m, k) == [x \in DOMAIN m \ {k} |-> m[x]]
MapInsert(m, k, v) == [x \in DOMAIN m \cup {k} |-> IF x = k THEN v ELSE m[x]]

\* ClientTaskInner::channel_state
channel_state(t, channel_id) ==
    IF channel_id \in DOMAIN t.channels THEN Some(t.channels[channel_id].state) ELSE None

\* create_channel / create_channel_core: Some(offer) when a record was created.
\* The request stream of the new record is pushed on channel_requests.
\* Variant: a duplicate offer replaces the stored offer descriptor.
create_channel_core_replace(t, offer, chstate) ==
    IF offer.channel_id \in DOMAIN t.channels
    THEN [task |-> [t EXCEPT !.channels[offer.channel_id].state = ChannelOffered,
                             !.channels[offer.channel_id].offer = offer],
          info |-> None]
    ELSE [task |-> [t EXCEPT
                      !.channels = MapInsert(@, offer.channel_id,
                                             [offer |-> offer, state |-> chstate,
                                              modify_response_send |-> None]),
                      !.channel_requests[offer.channel_id].cur = TRUE],
          info |-> Some(offer)]

create_channel_core(t, offer, chstate) ==
    IF offer.channel_id \in DOMAIN t.channels
    THEN [task |-> [t EXCEPT !.channels[offer.channel_id].state = ChannelOffered],
          info |-> None]
    ELSE [task |-> [t EXCEPT
                      !.channels = MapInsert(@, offer.channel_id,
                                             [offer |-> offer, state |-> chstate,
                                              modify_response_send |-> None]),
                      !.channel_requests[offer.channel_id].cur = TRUE],
          info |-> Some(offer)]

create_channel(t, offer) == create_channel_core(t, offer, ChannelOffered)

\* Variant: every new offer goes to the notification sink.
handle_offer_to_notify(t, offer) ==
    LET r == create_channel(t, offer)
    IN  IF r.info # None
        THEN Emit(r.task, "notify", [type |-> "Offer", offer |-> r.info[1]])
        ELSE r.task

handle_offer(t, offer) ==
    LET r == create_channel(t, offer)
    IN  IF r.info # None
        THEN IF t.state.kind = "RequestingOffers"
             THEN Emit(r.task, "offers", [item |-> "Offer", offer |-> r.info[1]])
             ELSE Emit(r.task, "notify", [type |-> "Offer", offer |-> r.info[1]])
        ELSE r.task

\* Variant: the rescind does not mark the GPADL's teardown as one to swallow.
RescindGpadl_unmarked(t, channel_id, gpadl_id) ==
    LET t1 == IF t.gpadls[<<channel_id, gpadl_id>>].kind = "TearingDown"
              THEN Emit(t, "response", [type |-> "TeardownGpadl", channel_id |-> channel_id,
                                        gpadl_id |-> gpadl_id])
              ELSE send_message(t, [type |-> "GpadlTeardown", channel_id |-> channel_id,
                                    gpadl_id |-> gpadl_id])
    IN  [t1 EXCEPT !.gpadls = MapRemove(@, <<channel_id, gpadl_id>>)]

\* The retain closure of handle_rescind for one GPADL of the rescinded channel.
RescindGpadl(t, channel_id, gpadl_id) ==
    LET t1 == IF t.gpadls[<<channel_id, gpadl_id>>].kind = "TearingDown"
              THEN Emit(t, "response", [type |-> "TeardownGpadl", channel_id |-> channel_id,
                                        gpadl_id |-> gpadl_id])
              ELSE send_message(t, [type |-> "GpadlTeardown", channel_id |-> channel_id,
                                    gpadl_id |-> gpadl_id])
    IN  [t1 EXCEPT !.teardown_gpadls = MapInsert(@, gpadl_id, None),
                   !.gpadls = MapRemove(@, <<channel_id, gpadl_id>>)]

RECURSIVE RescindGpadls(_, _, _)
RescindGpadls(t, channel_id, order) ==
    IF order = <<>> THEN t
    ELSE RescindGpadls(RescindGpadl(t, channel_id, Head(order)), channel_id, Tail(order))

\* The GPADL ids of a channel, and the orders in which a HashMap may visit them.
GpadlsOf(g, channel_id) == {k[2] : k \in {x \in DOMAIN g : x[1] = channel_id}}
Orders(S) == {o \in [1 .. Cardinality(S) -> S] : \A i, j \in DOMAIN o : i # j => o[i] # o[j]}

\* Variant: the relay is told of the revoke before the host is released.
handle_rescind_revoke_first(t, rescind, order) ==
    IF rescind.channel_id \notin DOMAIN t.channels
    THEN Panic(t, "rescind for unknown channel")
    ELSE LET t1 == RescindGpadls(t, rescind.channel_id, order)
             t2 == [t1 EXCEPT
                      !.channels = MapRemove(@, rescind.channel_id),
                      !.channel_requests[rescind.channel_id] =
                          [cur |-> FALSE, stale |-> @.stale + (IF @.cur THEN 1 ELSE 0)]]
             t3 == Emit(t2, "notify", [type |-> "Revoke", channel_id |-> rescind.channel_id])
         IN  send_message(t3, [type |-> "RelIdReleased", channel_id |-> rescind.channel_id])

\* Variant: the rescind removes the channel and leaves its GPADLs alone.
handle_rescind_keep_gpadls(t, rescind, order) ==
    IF rescind.channel_id \notin DOMAIN t.channels
    THEN Panic(t, "rescind for unknown channel")
    ELSE LET t2 == [t EXCEPT
                      !.channels = MapRemove(@, rescind.channel_id),
                      !.channel_requests[rescind.channel_id] =
                          [cur |-> FALSE, stale |-> @.stale + (IF @.cur THEN 1 ELSE 0)]]
             t3 == send_message(t2, [type |-> "RelIdReleased",
                                     channel_id |-> rescind.channel_id])
         IN  Emit(t3, "notify", [type |-> "Revoke", channel_id |-> rescind.channel_id])

\* order: the order in which retain visits the channel's GPADLs.
handle_rescind(t, rescind, order) ==
    IF rescind.channel_id \notin DOMAIN t.channels
    THEN Panic(t, "rescind for unknown channel")
    ELSE LET t1 == RescindGpadls(t, rescind.channel_id, order)
             \* the record goes; its request stream stays in channel_requests
             t2 == [t1 EXCEPT
                      !.channels = MapRemove(@, rescind.channel_id),
                      !.channel_requests[rescind.channel_id] =
                          [cur |-> FALSE, stale |-> @.stale + (IF @.cur THEN 1 ELSE 0)]]
             t3 == send_message(t2, [type |-> "RelIdReleased",
                                     channel_id |-> rescind.channel_id])
         IN  Emit(t3, "notify", [type |-> "Revoke", channel_id |-> rescind.channel_id])

\* Variant: the sentinel is sent whenever a version has been negotiated.
handle_offers_delivered_any_state(t) ==
    IF get_version(t.state) # None
    THEN [Emit(t, "offers", [item |-> "AllOffersDelivered"])
            EXCEPT !.state = Connected(get_version(t.state)[1])]
    ELSE t

handle_offers_delivered(t) ==
    IF t.state.kind = "RequestingOffers"
    THEN [Emit(t, "offers", [item |-> "AllOffersDelivered"])
            EXCEPT !.state = Connected(get_version(t.state)[1])]
    ELSE t

\* Variant: a GPADL the host failed to create stays in the registry.
handle_gpadl_created_keep_failed(t, request) ==
    LET key == <<request.channel_id, request.gpadl_id>>
    IN  IF key \notin DOMAIN t.gpadls THEN t
        ELSE IF t.gpadls[key].kind # "Offered" THEN t
        ELSE LET gpadl_created == request.status = STATUS_SUCCESS
                 sender == t.gpadls[key].sink
                 t1 == IF gpadl_created
                       THEN [t EXCEPT !.gpadls[key] = GpadlCreated]
                       ELSE t
             IN  Emit(t1, "rpc", [rpc |-> "gpadl", channel_id |-> request.channel_id,
                                  gpadl_id |-> request.gpadl_id, token |-> sender,
                                  value |-> gpadl_created])

handle_gpadl_created(t, request) ==
    LET key == <<request.channel_id, request.gpadl_id>>
    IN  IF key \notin DOMAIN t.gpadls THEN t
        ELSE IF t.gpadls[key].kind # "Offered" THEN t
        ELSE LET gpadl_created == request.status = STATUS_SUCCESS
                 sender == t.gpadls[key].sink
                 t1 == IF gpadl_created
                       THEN [t EXCEPT !.gpadls[key] = GpadlCreated]
                       ELSE [t EXCEPT !.gpadls = MapRemove(@, key)]
             IN  Emit(t1, "rpc", [rpc |-> "gpadl", channel_id |-> request.channel_id,
                                  gpadl_id |-> request.gpadl_id, token |-> sender,
                                  value |-> gpadl_created])

\* Variant: an OpenResult that no Open is waiting for is ignored.
handle_open_result_if_opening(t, result) ==
    IF result.channel_id \notin DOMAIN t.channels
    THEN Panic(t, "channel should exist")
    ELSE LET channel_opened == result.status = STATUS_SUCCESS
             new_state == IF channel_opened THEN ChannelOpened ELSE ChannelOffered
             old_state == t.channels[result.channel_id].state
             t1 == [t EXCEPT !.channels[result.channel_id].state = new_state]
         IN  IF old_state.kind # "Opening" THEN t
             ELSE Emit(t1, "rpc", [rpc |-> "open", channel_id |-> result.channel_id,
                                   token |-> old_state.sink, value |-> channel_opened])

\* Variant: the new sub-state is recorded and the waiting caller is not told.
handle_open_result_unanswered(t, result) ==
    IF result.channel_id \notin DOMAIN t.channels
    THEN Panic(t, "channel should exist")
    ELSE LET channel_opened == result.status = STATUS_SUCCESS
             new_state == IF channel_opened THEN ChannelOpened ELSE ChannelOffered
         IN  [t EXCEPT !.channels[result.channel_id].state = new_state]

handle_open_result(t, result) ==
    IF result.channel_id \notin DOMAIN t.channels
    THEN Panic(t, "channel should exist")
    ELSE LET channel_opened == result.status = STATUS_SUCCESS
             new_state == IF channel_opened THEN ChannelOpened ELSE ChannelOffered
             old_state == t.channels[result.channel_id].state
             t1 == [t EXCEPT !.channels[result.channel_id].state = new_state]
         IN  IF old_state.kind # "Opening" THEN t1
             ELSE Emit(t1, "rpc", [rpc |-> "open", channel_id |-> result.channel_id,
                                   token |-> old_state.sink, value |-> channel_opened])

\* Variant: the torn-down GPADL's record is read but left in the registry.
handle_gpadl_torndown_keep_record(t, request) ==
    IF request.gpadl_id \notin DOMAIN t.teardown_gpadls THEN t
    ELSE LET entry == t.teardown_gpadls[request.gpadl_id]
             t1 == [t EXCEPT !.teardown_gpadls = MapRemove(@, request.gpadl_id)]
         IN  IF entry = None THEN t1
             ELSE LET channel_id == entry[1]
                      key == <<channel_id, request.gpadl_id>>
                  IN  IF key \notin DOMAIN t1.gpadls
                      THEN Panic(t1, "gpadl validated above")
                      ELSE LET gpadl_state == t1.gpadls[key]
                           IN  IF gpadl_state.kind # "TearingDown"
                               THEN Panic(t1, "gpadl should be tearing down if in teardown list")
                               ELSE IF channel_id \notin DOMAIN t1.channels
                               THEN Panic(t1, "no channel for torn down gpadl")
                               ELSE Emit(t1, "response",
                                         [type |-> "TeardownGpadl", channel_id |-> channel_id,
                                          gpadl_id |-> request.gpadl_id])

handle_gpadl_torndown(t, request) ==
    IF request.gpadl_id \notin DOMAIN t.teardown_gpadls THEN t
    ELSE LET entry == t.teardown_gpadls[request.gpadl_id]
             t1 == [t EXCEPT !.teardown_gpadls = MapRemove(@, request.gpadl_id)]
         IN  IF entry = None THEN t1
             ELSE LET channel_id == entry[1]
                      key == <<channel_id, request.gpadl_id>>
                  IN  IF key \notin DOMAIN t1.gpadls
                      THEN Panic(t1, "gpadl validated above")
                      ELSE LET gpadl_state == t1.gpadls[key]
                               t2 == [t1 EXCEPT !.gpadls = MapRemove(@, key)]
                           IN  IF gpadl_state.kind # "TearingDown"
                               THEN Panic(t2, "gpadl should be tearing down if in teardown list")
                               ELSE IF channel_id \notin DOMAIN t2.channels
                               THEN Panic(t2, "no channel for torn down gpadl")
                               ELSE Emit(t2, "response",
                                         [type |-> "TeardownGpadl", channel_id |-> channel_id,
                                          gpadl_id |-> request.gpadl_id])

\* Variant: the unload reply is sent but the state stays Disconnecting.
handle_unload_complete_stay(t) ==
    Emit(t, "unload", [done |-> TRUE])

\* Variant: the disconnect forgets the channels and their GPADLs.
handle_unload_complete_clear(t) ==
    Emit([t EXCEPT !.state = Disconnected, !.channels = <<>>, !.gpadls = <<>>,
                   !.teardown_gpadls = <<>>],
         "unload", [done |-> TRUE])

handle_unload_complete(t) ==
    Emit([t EXCEPT !.state = Disconnected], "unload", [done |-> TRUE])

\* Variant: the response completes the sink but leaves it in the pending slot.
handle_modify_complete_keep(t, response) ==
    IF t.modify_request # None
    THEN Emit(t, "rpc",
              [rpc |-> "modify", token |-> t.modify_request[1].token,
               connection_state |-> response.connection_state])
    ELSE t

handle_modify_complete(t, response) ==
    IF t.modify_request # None
    THEN Emit([t EXCEPT !.modify_request = None], "rpc",
              [rpc |-> "modify", token |-> t.modify_request[1].token,
               connection_state |-> response.connection_state])
    ELSE t

handle_modify_channel_response(t, response) ==
    IF response.channel_id \notin DOMAIN t.channels
    THEN Panic(t, "modify response for unknown channel")
    ELSE LET pending == t.channels[response.channel_id].modify_response_send
         IN  IF pending = None THEN t
             ELSE Emit([t EXCEPT !.channels[response.channel_id].modify_response_send = None],
                       "rpc", [rpc |-> "modify_channel", channel_id |-> response.channel_id,
                               token |-> pending[1], status |-> response.status])

\* From<TlConnectResult> for HvsockConnectResult
handle_tl_connect_result(t, response) ==
    Emit(t, "notify", [type |-> "HvsockConnectResult", service_id |-> response.service_id,
                       endpoint_id |-> response.endpoint_id,
                       success |-> response.status = 0])

\* -------------------------------------------------------- channel requests

\* Variant: an Open is also accepted while an earlier one is pending.
handle_open_channel_reopen(t, channel_id, rpc) ==
    IF channel_id \notin DOMAIN t.channels
    THEN Panic(t, "invalid channel")
    ELSE IF t.channels[channel_id].state.kind \notin {"Offered", "Opening"}
    THEN Emit(t, "rpc", [rpc |-> "open", channel_id |-> channel_id, token |-> rpc.token,
                         value |-> FALSE])
    ELSE LET open_data == rpc.open_data
             open_channel ==
                 [type |-> "OpenChannel", channel_id |-> channel_id, open_id |-> 0,
                  ring_buffer_gpadl_id |-> open_data.ring_gpadl_id,
                  target_vp |-> open_data.target_vp,
                  downstream_ring_buffer_page_offset |-> open_data.ring_offset,
                  user_data |-> open_data.user_data]
             open_channel2 ==
                 [type |-> "OpenChannel2", channel_id |-> channel_id, open_id |-> 0,
                  ring_buffer_gpadl_id |-> open_data.ring_gpadl_id,
                  target_vp |-> open_data.target_vp,
                  downstream_ring_buffer_page_offset |-> open_data.ring_offset,
                  user_data |-> open_data.user_data,
                  connection_id |-> open_data.connection_id,
                  event_flag |-> open_data.event_flag,
                  flags |-> rpc.flags]
             opening == ChannelOpening(rpc.token)
         IN  IF /\ t.state.kind = "Connected"
                /\ \/ guest_specified_signal_parameters(t.state.feature_flags)
                   \/ channel_interrupt_redirection(t.state.feature_flags)
             THEN [send_message(t, open_channel2)
                     EXCEPT !.channels[channel_id].state = opening]
             ELSE IF open_data.event_flag # channel_id % U16
             THEN Panic(t, "Trying to use guest-specified event flag when the host doesn't support it.")
             ELSE [send_message(t, open_channel)
                     EXCEPT !.channels[channel_id].state = opening]

handle_open_channel(t, channel_id, rpc) ==
    IF channel_id \notin DOMAIN t.channels
    THEN Panic(t, "invalid channel")
    ELSE IF t.channels[channel_id].state.kind # "Offered"
    THEN Emit(t, "rpc", [rpc |-> "open", channel_id |-> channel_id, token |-> rpc.token,
                         value |-> FALSE])
    ELSE LET open_data == rpc.open_data
             open_channel ==
                 [type |-> "OpenChannel", channel_id |-> channel_id, open_id |-> 0,
                  ring_buffer_gpadl_id |-> open_data.ring_gpadl_id,
                  target_vp |-> open_data.target_vp,
                  downstream_ring_buffer_page_offset |-> open_data.ring_offset,
                  user_data |-> open_data.user_data]
             open_channel2 ==
                 [type |-> "OpenChannel2", channel_id |-> channel_id, open_id |-> 0,
                  ring_buffer_gpadl_id |-> open_data.ring_gpadl_id,
                  target_vp |-> open_data.target_vp,
                  downstream_ring_buffer_page_offset |-> open_data.ring_offset,
                  user_data |-> open_data.user_data,
                  connection_id |-> open_data.connection_id,
                  event_flag |-> open_data.event_flag,
                  flags |-> rpc.flags]
             opening == ChannelOpening(rpc.token)
         IN  IF /\ t.state.kind = "Connected"
                /\ \/ guest_specified_signal_parameters(t.state.feature_flags)
                   \/ channel_interrupt_redirection(t.state.feature_flags)
             THEN [send_message(t, open_channel2)
                     EXCEPT !.channels[channel_id].state = opening]
             ELSE IF open_data.event_flag # channel_id % U16
             THEN Panic(t, "Trying to use guest-specified event flag when the host doesn't support it.")
             ELSE [send_message(t, open_channel)
                     EXCEPT !.channels[channel_id].state = opening]

\* GpadlHeader::MAX_DATA_VALUES and GpadlBody::MAX_DATA_VALUES
GpadlHeaderMaxDataValues == 27
GpadlBodyMaxDataValues == 28

SubSeqFrom(s, i) == SubSeq(s, i, Len(s))
Min(a, b) == IF a < b THEN a ELSE b

\* slice::chunks
RECURSIVE Chunks(_, _)
Chunks(s, n) ==
    IF s = <<>> THEN <<>>
    ELSE <<SubSeq(s, 1, Min(n, Len(s)))>> \o Chunks(SubSeqFrom(s, Min(n, Len(s)) + 1), n)

RECURSIVE SendBodies(_, _, _)
SendBodies(t, gpadl_id, chunks) ==
    IF chunks = <<>> THEN t
    ELSE SendBodies(send_message(t, [type |-> "GpadlBody", gpadl_id |-> gpadl_id,
                                     data |-> Head(chunks)]),
                    gpadl_id, Tail(chunks))

\* Variant: len is the byte length of the values in the header alone.
handle_gpadl_header_len(t, channel_id, rpc) ==
    LET key == <<channel_id, rpc.id>>
        t1 == [t EXCEPT !.gpadls = MapInsert(@, key, GpadlOffered(rpc.token))]
    IN  IF key \in DOMAIN t.gpadls
        THEN Panic(t1, "duplicate gpadl ID")
        ELSE LET split == Len(rpc.buf) > GpadlHeaderMaxDataValues
                 first == IF split THEN SubSeq(rpc.buf, 1, GpadlHeaderMaxDataValues)
                          ELSE rpc.buf
                 remaining == IF split
                              THEN SubSeqFrom(rpc.buf, GpadlHeaderMaxDataValues + 1)
                              ELSE <<>>
                 len == Len(first) * 8
             IN  IF len >= 2 ^ 16
                 THEN Panic(t1, "Too many GPA values")
                 ELSE SendBodies(
                          send_message(t1, [type |-> "GpadlHeader", channel_id |-> channel_id,
                                            gpadl_id |-> rpc.id, len |-> len,
                                            count |-> rpc.count, data |-> first]),
                          rpc.id, Chunks(remaining, GpadlBodyMaxDataValues))

handle_gpadl(t, channel_id, rpc) ==
    LET key == <<channel_id, rpc.id>>
        t1 == [t EXCEPT !.gpadls = MapInsert(@, key, GpadlOffered(rpc.token))]
    IN  IF key \in DOMAIN t.gpadls
        THEN Panic(t1, "duplicate gpadl ID")
        ELSE LET split == Len(rpc.buf) > GpadlHeaderMaxDataValues
                 first == IF split THEN SubSeq(rpc.buf, 1, GpadlHeaderMaxDataValues)
                          ELSE rpc.buf
                 remaining == IF split
                              THEN SubSeqFrom(rpc.buf, GpadlHeaderMaxDataValues + 1)
                              ELSE <<>>
                 len == Len(rpc.buf) * 8
             IN  IF len >= 2 ^ 16
                 THEN Panic(t1, "Too many GPA values")
                 ELSE SendBodies(
                          send_message(t1, [type |-> "GpadlHeader", channel_id |-> channel_id,
                                            gpadl_id |-> rpc.id, len |-> len,
                                            count |-> rpc.count, data |-> first]),
                          rpc.id, Chunks(remaining, GpadlBodyMaxDataValues))

\* Variant: a teardown is posted again for a GPADL that is being torn down.
handle_gpadl_teardown_repeat(t, channel_id, gpadl_id) ==
    LET key == <<channel_id, gpadl_id>>
    IN  IF key \notin DOMAIN t.gpadls THEN t
        ELSE LET t1 == [t EXCEPT !.gpadls[key] = GpadlTearingDown,
                                 !.teardown_gpadls = MapInsert(@, gpadl_id, Some(channel_id))]
             IN  send_message(t1, [type |-> "GpadlTeardown", channel_id |-> channel_id,
                                   gpadl_id |-> gpadl_id])

handle_gpadl_teardown(t, channel_id, gpadl_id) ==
    LET key == <<channel_id, gpadl_id>>
    IN  IF key \notin DOMAIN t.gpadls THEN t
        ELSE IF t.gpadls[key].kind = "TearingDown" THEN t
        ELSE LET t1 == [t EXCEPT !.gpadls[key] = GpadlTearingDown,
                                 !.teardown_gpadls = MapInsert(@, gpadl_id, Some(channel_id))]
             IN  IF gpadl_id \in DOMAIN t.teardown_gpadls
                 THEN Panic(t1, "Gpadl state validated above")
                 ELSE send_message(t1, [type |-> "GpadlTeardown", channel_id |-> channel_id,
                                        gpadl_id |-> gpadl_id])

\* Variant: a Close also cancels an Open that is still pending.
handle_close_channel_pending(t, channel_id) ==
    IF channel_state(t, channel_id) = None
    THEN Panic(t, "close for unknown channel")
    ELSE IF channel_state(t, channel_id)[1].kind \in {"Opened", "Opening"}
    THEN [send_message(t, [type |-> "CloseChannel", channel_id |-> channel_id])
            EXCEPT !.channels[channel_id].state = ChannelOffered]
    ELSE t

handle_close_channel(t, channel_id) ==
    IF channel_state(t, channel_id) = None
    THEN Panic(t, "close for unknown channel")
    ELSE IF channel_state(t, channel_id)[1].kind = "Opened"
    THEN [send_message(t, [type |-> "CloseChannel", channel_id |-> channel_id])
            EXCEPT !.channels[channel_id].state = ChannelOffered]
    ELSE t

\* ClientTask::check_version
check_version(t, version) == t.state.kind = "Connected" /\ t.state.version >= version

handle_modify_channel(t, channel_id, rpc) ==
    IF ~check_version(t, Iron)
    THEN Panic(t, "assertion failed: self.check_version(Version::Iron)")
    ELSE IF channel_id \notin DOMAIN t.channels
    THEN Panic(t, "modify request for unknown channel")
    ELSE IF t.channels[channel_id].modify_response_send # None
    THEN Panic(t, "duplicate channel modify request")
    ELSE [send_message(t, [type |-> "ModifyChannel", channel_id |-> channel_id,
                           target_vp |-> rpc.target_vp])
            EXCEPT !.channels[channel_id].modify_response_send = Some(rpc.token)]

\* Variant: a request is handled whether or not its channel is registered.
handle_channel_request_unchecked(t, channel_id, request) ==
    CASE request.kind = "Open" -> handle_open_channel(t, channel_id, request.rpc)
      [] request.kind = "Gpadl" -> handle_gpadl(t, channel_id, request.rpc)
      [] request.kind = "TeardownGpadl" ->
             handle_gpadl_teardown(t, channel_id, request.gpadl_id)
      [] request.kind = "Close" -> handle_close_channel(t, channel_id)
      [] request.kind = "Modify" -> handle_modify_channel(t, channel_id, request.rpc)

handle_channel_request(t, channel_id, request) ==
    IF channel_state(t, channel_id) = None THEN t
    ELSE CASE request.kind = "Open" -> handle_open_channel(t, channel_id, request.rpc)
           [] request.kind = "Gpadl" -> handle_gpadl(t, channel_id, request.rpc)
           [] request.kind = "TeardownGpadl" ->
                  handle_gpadl_teardown(t, channel_id, request.gpadl_id)
           [] request.kind = "Close" -> handle_close_channel(t, channel_id)
           [] request.kind = "Modify" -> handle_modify_channel(t, channel_id, request.rpc)

handle_device_removal(t, channel_id) ==
    IF channel_state(t, channel_id) # None /\ channel_state(t, channel_id)[1].kind = "Opened"
    THEN handle_close_channel(t, channel_id)
    ELSE t

\* ----------------------------------------------------------- synic messages

ServerOnlyTypes ==
    {"RequestOffers", "OpenChannel2", "OpenChannel", "CloseChannel", "GpadlHeader",
     "GpadlBody", "GpadlTeardown", "RelIdReleased", "InitiateContact", "InitiateContact2",
     "Unload", "OpenReservedChannel", "CloseReservedChannel", "TlConnectRequest2",
     "TlConnectRequest", "ModifyChannel", "ModifyConnection"}

\* Message::parse: whether a message of this type parses under the negotiated
\* version (None before negotiation).  Of the messages a host sends, only
\* ModifyConnectionResponse is tied to a version and a feature.
MessageSupported(type, version) ==
    IF version = None THEN TRUE
    ELSE IF type = "ModifyConnectionResponse"
    THEN version[1].version >= Copper /\ modify_connection(version[1].feature_flags)
    ELSE TRUE

\* order is used by RescindChannelOffer alone.
handle_synic_message(t, msg, order) ==
    IF ~MessageSupported(msg.type, get_version(t.state))
    THEN Panic(t, "Message::parse failed")
    ELSE CASE msg.type = "VersionResponse2" -> handle_version_response(t, msg)
           [] msg.type = "VersionResponse" ->
                  handle_version_response(t, VersionResponseInto(msg))
           [] msg.type = "OfferChannel" -> handle_offer(t, msg)
           [] msg.type = "AllOffersDelivered" -> handle_offers_delivered(t)
           [] msg.type = "UnloadComplete" -> handle_unload_complete(t)
           [] msg.type = "ModifyConnectionResponse" -> handle_modify_complete(t, msg)
           [] msg.type = "GpadlCreated" -> handle_gpadl_created(t, msg)
           [] msg.type = "OpenResult" -> handle_open_result(t, msg)
           [] msg.type = "GpadlTorndown" -> handle_gpadl_torndown(t, msg)
           [] msg.type = "RescindChannelOffer" -> handle_rescind(t, msg, order)
           [] msg.type = "ModifyChannelResponse" -> handle_modify_channel_response(t, msg)
           [] msg.type = "TlConnectResult" -> handle_tl_connect_result(t, msg)
           [] msg.type = "CloseReservedChannelResponse" ->
                  Panic(t, "not yet implemented: Unsupported message")
           [] msg.type \in ServerOnlyTypes -> Panic(t, "Client received server message")

\* ------------------------------------------------------------ save, restore

\* SavedState: the connection tuple (version, feature flags, monitor pages,
\* target message vp, client id) of a client that has negotiated one, every
\* channel record as offer descriptor and open bit, every GPADL key with its
\* sub-state.  Of the tuple the task holds the VersionInfo; what the contact
\* request named is in ClientState::Connecting alone and is gone with it, so
\* those three are saved as None.
save_state(t) ==
    [client_state |->
         IF get_version(t.state) = None THEN None
         ELSE Some([version |-> get_version(t.state)[1].version,
                    feature_flags |-> get_version(t.state)[1].feature_flags,
                    monitor_page |-> None, target_message_vp |-> None,
                    client_id |-> None]),
     channels |-> {[offer |-> t.channels[c].offer,
                    open |-> t.channels[c].state.kind = "Opened"] : c \in DOMAIN t.channels},
     gpadls |-> [k \in DOMAIN t.gpadls |-> t.gpadls[k].kind]]

handle_save(t) == Emit(t, "rpc", [rpc |-> "save", state |-> save_state(t)])

\* RestoreError for a snapshot, or None.
restore_error(s) ==
    IF s.client_state # None
       /\ \A i \in DOMAIN SUPPORTED_VERSIONS :
                SUPPORTED_VERSIONS[i] # s.client_state[1].version
    THEN Some("UnsupportedVersion")
    ELSE IF s.client_state # None
            /\ BitAnd(s.client_state[1].feature_flags, FeatureFlagsAll)
                # s.client_state[1].feature_flags
    THEN Some("UnsupportedFeatureFlags")
    ELSE IF \E a, b \in s.channels : a # b /\ a.offer.channel_id = b.offer.channel_id
    THEN Some("DuplicateChannelId")
    ELSE IF \E k1, k2 \in DOMAIN s.gpadls :
                /\ k1 # k2 /\ k1[2] = k2[2]
                /\ s.gpadls[k1] = "TearingDown" /\ s.gpadls[k2] = "TearingDown"
    THEN Some("DuplicateGpadlId")
    ELSE None

\* The saved channels go back into the registry through create_channel_core,
\* each in the sub-state of its open bit.
RECURSIVE RestoreChannels(_, _)
RestoreChannels(t, saved_channels) ==
    IF saved_channels = {} THEN t
    ELSE LET c == CHOOSE x \in saved_channels : TRUE
             r == create_channel_core(t, c.offer,
                                      IF c.open THEN ChannelOpened ELSE ChannelOffered)
         IN  RestoreChannels(r.task, saved_channels \ {c})

\* The saved GPADLs go back with their sub-state; one that was being torn
\* down is again awaited in teardown_gpadls.  The snapshot holds no reply
\* sink: a GPADL saved as Offered goes back without one.
RestoreGpadls(t, saved_gpadls) ==
    [t EXCEPT
       !.gpadls = [k \in DOMAIN saved_gpadls |->
                      CASE saved_gpadls[k] = "TearingDown" -> GpadlTearingDown
                        [] saved_gpadls[k] = "Offered" -> GpadlOffered(0)
                        [] OTHER -> GpadlCreated],
       !.teardown_gpadls =
           [g \in {k[2] : k \in {x \in DOMAIN saved_gpadls :
                                    saved_gpadls[x] = "TearingDown"}} |->
               Some((CHOOSE k \in DOMAIN saved_gpadls :
                        k[2] = g /\ saved_gpadls[k] = "TearingDown")[1])]]

\* The reply names the restored version and, per channel, the offer that is
\* exposed again with its open bit.
handle_restore(t, s) ==
    IF restore_error(s) # None
    THEN Emit(t, "rpc", [rpc |-> "restore", ok |-> FALSE, error |-> restore_error(s)[1]])
    ELSE LET version == IF s.client_state = None THEN None
                        ELSE Some(VersionInfo(s.client_state[1].version,
                                              s.client_state[1].feature_flags))
             t1 == [t EXCEPT !.state = IF version = None THEN Disconnected
                                       ELSE Connected(version[1])]
             t2 == RestoreChannels(t1, s.channels)
             t3 == RestoreGpadls(t2, s.gpadls)
         IN  Emit(t3, "rpc", [rpc |-> "restore", ok |-> TRUE, version |-> version,
                              channels |-> s.channels])

\* ------------------------------------------------------------------- stop

NoOrder == <<>>
\* The orders in which the handler of msg may visit a HashMap.
MessageOrders(t, msg) ==
    IF msg.type = "RescindChannelOffer" /\ "channel_id" \in DOMAIN msg
    THEN Orders(GpadlsOf(t.gpadls, msg.channel_id))
    ELSE {NoOrder}

\* ------------------------------------------------------------ the event loop

\* Nothing sent and not yet received; the facade's sender is held.
NoQueues ==
    [client |-> <<>>, client_closed |-> FALSE, synic |-> <<>>,
     channel |-> [c \in StreamIds |-> <<>>], draining |-> FALSE, late |-> 0]

Init ==
    /\ state = Disconnected
    /\ running = FALSE
    /\ modify_request = None
    /\ channels = <<>>
    /\ gpadls = <<>>
    /\ teardown_gpadls = <<>>
    /\ channel_requests = [c \in StreamIds |-> [cur |-> FALSE, stale |-> 0]]
    /\ out = <<>>
    /\ ev = [src |-> "new", kind |-> "new", arg |-> [none |-> TRUE]]
    /\ panic = "none"
    /\ queues = NoQueues
    /\ saved = None
    /\ exited = FALSE

\* A handler ran on an event and left the task as t.  ev records where the
\* event came from, its kind and the ids it names.
Effects(t, src, kind, arg) ==
    /\ state' = t.state
    /\ modify_request' = t.modify_request
    /\ channels' = t.channels
    /\ gpadls' = t.gpadls
    /\ teardown_gpadls' = t.teardown_gpadls
    /\ channel_requests' = t.channel_requests
    /\ out' = t.out
    /\ panic' = t.panic
    /\ ev' = [src |-> src, kind |-> kind, arg |-> arg]

\* The flag stays as it is unless the handler aborted.
Handled(t, src, kind, arg) ==
    /\ Effects(t, src, kind, arg)
    /\ running' = (running /\ t.panic = "none")

\* The request endpoints handed out under one channel id: the registered
\* channel's is Cur; those of earlier offers of the id that their callers
\* still hold are 1 .. stale, the oldest first.  Each has a stream of its own
\* in channel_requests.
Cur == 0

\* The requests of q that were sent on the endpoint via, oldest first.
OnVia(q, via) == SelectSeq(q, LAMBDA e : e.via = via)
\* The place in q of the oldest request sent on the endpoint via.
FirstOn(q, via) ==
    CHOOSE i \in DOMAIN q : q[i].via = via /\ \A j \in 1 .. i - 1 : q[j].via # via
Without(q, i) == SubSeq(q, 1, i - 1) \o SubSeq(q, i + 1, Len(q))

\* handle_rescind leaves the stream of the removed record in channel_requests:
\* what waits on the channel's endpoint then waits on the newest of the
\* endpoints of earlier offers.  What waits on the others stays where it is.
Restamped(q, t) ==
    [q EXCEPT !.channel =
        [c \in StreamIds |->
            IF t.channel_requests[c].stale > channel_requests[c].stale
            THEN [i \in DOMAIN q.channel[c] |->
                     IF q.channel[c][i].via = Cur
                     THEN [q.channel[c][i] EXCEPT !.via = t.channel_requests[c].stale]
                     ELSE q.channel[c][i]]
            ELSE q.channel[c]]]
\* The stream of the endpoint via of id c has ended and left the set: the
\* endpoints handed out after it are one place older each.
Ended(q, c, via) ==
    IF via = Cur THEN q
    ELSE [q EXCEPT !.channel[c] =
             [i \in DOMAIN q.channel[c] |->
                 IF q.channel[c][i].via > via
                 THEN [q.channel[c][i] EXCEPT !.via = @ - 1]
                 ELSE q.channel[c][i]]]

\* The loop has dispatched an event that was received as soon as it was sent.
Dispatched(t, src, kind, arg) ==
    /\ Handled(t, src, kind, arg)
    /\ queues' = Restamped(queues, t)
    /\ UNCHANGED <<saved, exited>>

\* The task has neither aborted nor returned from run(), and the loop is at
\* its select!, not inside handle_stop's drain.
Alive == panic = "none" /\ ~exited /\ ~queues.draining
NoArg == [none |-> TRUE]

\* The sink of a new Rpc is distinct from the sink the task holds for the
\* same channel (or connection): token 1 unless that one is held.
FreshToken(held) == IF 1 \in held THEN 2 ELSE 1

OpenSinks(c) ==
    IF c \in DOMAIN channels /\ channels[c].state.kind = "Opening"
    THEN {channels[c].state.sink} ELSE {}
ModifySinks == {modify_request[i].token : i \in DOMAIN modify_request}

\* handle_start
Start ==
    /\ Alive
    /\ IF running
       THEN Dispatched(Panic(Task, "assertion failed: !self.running"), "task", "Start", NoArg)
       ELSE /\ running' = TRUE
            /\ out' = <<>>
            /\ ev' = [src |-> "task", kind |-> "Start", arg |-> NoArg]
            /\ UNCHANGED <<state, modify_request, channels, gpadls, teardown_gpadls,
                           channel_requests, panic, queues, saved, exited>>

\* ---- requests of the facade (client_request_recv)

ClientRequest(request) ==
    /\ Alive /\ running
    /\ queues.client = <<>> /\ ~queues.client_closed
    /\ Dispatched(handle_client_request(Task, request), "client", request.kind, NoArg)

InitiateContactRequest(r) == [kind |-> "InitiateContact", request |-> r]
ModifyRequest == [kind |-> "Modify",
                  request |-> [token |-> FreshToken(ModifySinks), monitor_page |-> None]]
HvsockRequest == [kind |-> "HvsockConnect",
                  request |-> [service_id |-> 1, endpoint_id |-> 2, silo_id |-> 3]]

ReqInitiateContact == \E r \in ContactRequests : ClientRequest(InitiateContactRequest(r))
ReqRequestOffers == ClientRequest([kind |-> "RequestOffers"])
ReqUnload == ClientRequest([kind |-> "Unload"])
ReqModify == ClientRequest(ModifyRequest)
ReqHvsockConnect == ClientRequest(HvsockRequest)

\* ---- messages of the host (msg_source)

MsgArg(msg) ==
    CASE msg.type \in {"OfferChannel", "OpenResult", "RescindChannelOffer",
                       "ModifyChannelResponse"} -> [channel_id |-> msg.channel_id]
      [] msg.type = "GpadlCreated" ->
             [channel_id |-> msg.channel_id, gpadl_id |-> msg.gpadl_id]
      [] msg.type = "GpadlTorndown" -> [gpadl_id |-> msg.gpadl_id]
      [] OTHER -> NoArg

SynicMessage(msg, order) ==
    /\ Alive /\ running
    /\ queues.synic = <<>>
    /\ Dispatched(handle_synic_message(Task, msg, order), "synic", msg.type, MsgArg(msg))


VersionResponse2(s, c, f) ==
    [type |-> "VersionResponse2", version_supported |-> s, connection_state |-> c,
     supported_features |-> f]
VersionResponse(s, c) ==
    [type |-> "VersionResponse", version_supported |-> s, connection_state |-> c]
OfferChannel(c, p) == [type |-> "OfferChannel", channel_id |-> c, payload |-> p]
GpadlCreatedMsg(c, g, s) ==
    [type |-> "GpadlCreated", channel_id |-> c, gpadl_id |-> g, status |-> s]
OpenResult(c, s) == [type |-> "OpenResult", channel_id |-> c, status |-> s]
GpadlTorndown(g) == [type |-> "GpadlTorndown", gpadl_id |-> g]
RescindChannelOffer(c) == [type |-> "RescindChannelOffer", channel_id |-> c]
ModifyChannelResponse(c, s) ==
    [type |-> "ModifyChannelResponse", channel_id |-> c, status |-> s]
TlConnectResult(s) ==
    [type |-> "TlConnectResult", service_id |-> 1, endpoint_id |-> 2, status |-> s]

RecvVersionResponse2 ==
    \E s \in {0, 1}, c \in ConnectionStates, f \in HostMasks :
        SynicMessage(VersionResponse2(s, c, f), NoOrder)
RecvVersionResponse ==
    \E s \in {0, 1}, c \in ConnectionStates : SynicMessage(VersionResponse(s, c), NoOrder)
RecvOfferChannel ==
    \E c \in ChannelIds, p \in OfferPayloads : SynicMessage(OfferChannel(c, p), NoOrder)
RecvAllOffersDelivered == SynicMessage([type |-> "AllOffersDelivered"], NoOrder)
RecvUnloadComplete == SynicMessage([type |-> "UnloadComplete"], NoOrder)
RecvModifyConnectionResponse ==
    \E c \in ConnectionStates :
        SynicMessage([type |-> "ModifyConnectionResponse", connection_state |-> c], NoOrder)
RecvGpadlCreated ==
    \E c \in ChannelIds, g \in GpadlIds, s \in Statuses :
        SynicMessage(GpadlCreatedMsg(c, g, s), NoOrder)
RecvOpenResult ==
    \E c \in ChannelIds, s \in Statuses : SynicMessage(OpenResult(c, s), NoOrder)
RecvGpadlTorndown == \E g \in GpadlIds : SynicMessage(GpadlTorndown(g), NoOrder)
\* A rescind leaves one more endpoint of an earlier offer with its caller:
\* the callers hold at most MaxStreams of them per id.
HeldWithin(c) == channel_requests[c].cur => channel_requests[c].stale < MaxStreams
RecvRescindChannelOffer ==
    \E c \in ChannelIds : \E o \in Orders(GpadlsOf(gpadls, c)) :
        /\ HeldWithin(c)
        /\ SynicMessage(RescindChannelOffer(c), o)
RecvModifyChannelResponse ==
    \E c \in ChannelIds, s \in Statuses : SynicMessage(ModifyChannelResponse(c, s), NoOrder)
RecvTlConnectResult == \E s \in Statuses : SynicMessage(TlConnectResult(s), NoOrder)
RecvUnsupported ==
    \E ty \in {"CloseReservedChannelResponse", "RequestOffers"} :
        SynicMessage([type |-> ty], NoOrder)

\* ---- requests of the callers (channel_requests)

\* The live request streams tagged c: the registered channel's and those
\* handed out with earlier offers of the id.
LiveVia(c) ==
    (IF channel_requests[c].cur THEN {Cur} ELSE {}) \cup (1 .. channel_requests[c].stale)

ChannelRequest(c, via, request) ==
    /\ Alive /\ running
    /\ via \in LiveVia(c)
    /\ OnVia(queues.channel[c], via) = <<>>
    /\ Dispatched(handle_channel_request(Task, c, request), "channel", request.kind,
                  [channel_id |-> c, via |-> via])

\* The ring a caller opens a channel with; the values differ from one another
\* so that a field copied to the wrong place shows.
OpenData(e) ==
    [target_vp |-> 0, ring_offset |-> 2, ring_gpadl_id |-> 1, user_data |-> 7,
     event_flag |-> e, connection_id |-> 3]
OpenRequest(c, e) ==
    [kind |-> "Open",
     rpc |-> [token |-> FreshToken(OpenSinks(c)), open_data |-> OpenData(e), flags |-> 0]]
GpadlRequest(g) ==
    [kind |-> "Gpadl", rpc |-> [token |-> 1, id |-> g, count |-> 1, buf |-> <<5>>]]
\* Buffer lengths a caller passes: one value, a full header, one value more,
\* a full header and body, and two full bodies with one value more.
GpadlBufLens ==
    {1, GpadlHeaderMaxDataValues, GpadlHeaderMaxDataValues + 1,
     GpadlHeaderMaxDataValues + GpadlBodyMaxDataValues,
     GpadlHeaderMaxDataValues + 2 * GpadlBodyMaxDataValues + 1}
\* A request with n distinct values; GpadlRequest(g) is the one with n = 1.
GpadlRequestOf(g, n) ==
    [kind |-> "Gpadl",
     rpc |-> [token |-> 1, id |-> g, count |-> 1, buf |-> [i \in 1 .. n |-> 4 + i]]]
TeardownGpadlRequest(g) == [kind |-> "TeardownGpadl", gpadl_id |-> g]
ModifyChannelRequest == [kind |-> "Modify", rpc |-> [token |-> 1, target_vp |-> 1]]
Vias == {Cur} \cup (1 .. MaxStreams)
\* Event flags a caller asks for: the channel's own and another one.
EventFlags(c) == {c, c + 1}

ChanOpen ==
    \E c \in ChannelIds, via \in Vias : \E e \in EventFlags(c) :
        ChannelRequest(c, via, OpenRequest(c, e))
ChanClose == \E c \in ChannelIds, via \in Vias : ChannelRequest(c, via, [kind |-> "Close"])
ChanGpadl ==
    \E c \in ChannelIds, via \in Vias, g \in GpadlIds, n \in GpadlBufLens :
        ChannelRequest(c, via, GpadlRequestOf(g, n))
ChanTeardownGpadl ==
    \E c \in ChannelIds, via \in Vias, g \in GpadlIds :
        ChannelRequest(c, via, TeardownGpadlRequest(g))
ChanModify ==
    \E c \in ChannelIds, via \in Vias : ChannelRequest(c, via, ModifyChannelRequest)

\* Variant: the end of a request stream breaks out of the loop.
ChanDropped_break ==
    \E c \in ChannelIds, via \in Vias :
        /\ Alive /\ running
        /\ via \in LiveVia(c)
        /\ OnVia(queues.channel[c], via) = <<>>
        /\ LET t == handle_device_removal(Task, c)
               t1 == [t EXCEPT !.channel_requests[c] =
                                   IF via = Cur THEN [@ EXCEPT !.cur = FALSE]
                                   ELSE [@ EXCEPT !.stale = @ - 1]]
           IN  /\ Handled(t1, "channel", "Dropped", [channel_id |-> c, via |-> via])
               /\ queues' = Ended(queues, c, via)
               /\ exited' = TRUE
               /\ UNCHANGED saved

\* The caller dropped a request endpoint: its stream ends and leaves the set.
ChanDropped ==
    \E c \in ChannelIds, via \in Vias :
        /\ Alive /\ running
        /\ via \in LiveVia(c)
        /\ OnVia(queues.channel[c], via) = <<>>
        /\ LET t == handle_device_removal(Task, c)
               t1 == [t EXCEPT !.channel_requests[c] =
                                   IF via = Cur THEN [@ EXCEPT !.cur = FALSE]
                                   ELSE [@ EXCEPT !.stale = @ - 1]]
           IN  /\ Handled(t1, "channel", "Dropped", [channel_id |-> c, via |-> via])
               /\ queues' = Ended(queues, c, via)
               /\ UNCHANGED <<saved, exited>>

\* ---- commands of the owner (task_recv), handled running or not

\* TaskRequest::Inspect
TaskInspect ==
    /\ Alive
    /\ Dispatched(Task, "task", "Inspect", NoArg)

\* TaskRequest::Save: the caller keeps the snapshot.
TaskSave ==
    /\ Alive
    /\ Handled(handle_save(Task), "task", "Save", NoArg)
    /\ saved' = Some(save_state(Task))
    /\ UNCHANGED <<queues, exited>>

\* TaskRequest::Restore of the snapshot the caller holds, into an instance
\* that is Disconnected and empty.
TaskRestore ==
    /\ Alive
    /\ saved # None
    /\ state = Disconnected /\ channels = <<>> /\ gpadls = <<>> /\ teardown_gpadls = <<>>
    /\ Dispatched(handle_restore(Task, saved[1]), "task", "Restore", NoArg)

\* TaskRequest::Restore of a snapshot that names one channel twice: the
\* caller's, with a second record for one of its channels.
TaskRestoreDuplicate ==
    /\ Alive
    /\ saved # None
    /\ state = Disconnected /\ channels = <<>> /\ gpadls = <<>> /\ teardown_gpadls = <<>>
    /\ \E r \in saved[1].channels :
           Dispatched(handle_restore(Task, [saved[1] EXCEPT
                                              !.channels = @ \cup {[r EXCEPT !.open = ~@]}]),
                      "task", "Restore", [duplicate |-> r.offer.channel_id])

\* The owner dropped the client: task_recv ends and run() returns.
TaskClosed ==
    /\ Alive
    /\ exited' = TRUE
    /\ out' = <<>>
    /\ ev' = [src |-> "task", kind |-> "Closed", arg |-> NoArg]
    /\ UNCHANGED <<state, running, modify_request, channels, gpadls, teardown_gpadls,
                   channel_requests, panic, queues, saved>>

\* VmbusClientBuilder::build: a fresh task.  The caller keeps its snapshot.
NewInstance ==
    /\ saved # None
    /\ state' = Disconnected
    /\ running' = FALSE
    /\ modify_request' = None
    /\ channels' = <<>>
    /\ gpadls' = <<>>
    /\ teardown_gpadls' = <<>>
    /\ channel_requests' = [c \in StreamIds |-> [cur |-> FALSE, stale |-> 0]]
    /\ out' = <<>>
    /\ ev' = [src |-> "new", kind |-> "new", arg |-> NoArg]
    /\ panic' = "none"
    /\ queues' = NoQueues
    /\ exited' = FALSE
    /\ UNCHANGED saved

\* ---- sending to the loop, and receiving what was sent earlier

\* Something was sent to the loop (or an endpoint dropped): only queues changes.
Sent(kind, q) ==
    /\ panic = "none" /\ ~exited
    /\ queues' = q
    /\ out' = <<>>
    /\ ev' = [src |-> "env", kind |-> kind, arg |-> NoArg]
    /\ UNCHANGED <<state, running, modify_request, channels, gpadls, teardown_gpadls,
                   channel_requests, panic, saved, exited>>

FacadeSends(request) ==
    /\ ~queues.client_closed
    /\ Len(queues.client) < MaxQueue
    /\ Sent("SendRequest", [queues EXCEPT !.client = Append(@, request)])
\* The source hands over what the host sent, paused or not: recv is awaited
\* in the loop and in handle_stop alike.  A paused source returns what it
\* holds and then EOF (trait VmbusMessageSource): once paused it takes in
\* MaxLate messages at most.
HostSends(msg) ==
    /\ Len(queues.synic) < MaxQueue
    /\ queues.draining => queues.late < MaxLate
    /\ Sent("SendMessage",
            [queues EXCEPT !.synic = Append(@, msg),
                           !.late = IF queues.draining THEN @ + 1 ELSE @])
\* A caller sends on an endpoint it holds: the registered channel's or one
\* of an earlier offer of the id.
CallerSends(c, via, request) ==
    /\ via \in LiveVia(c)
    /\ Len(queues.channel[c]) < MaxQueue
    /\ Sent("SendChannelRequest",
            [queues EXCEPT !.channel[c] = Append(@, [via |-> via, request |-> request])])
\* The facade was dropped: client_request_recv ends after what was sent.
FacadeDropped ==
    /\ ~queues.client_closed
    /\ Sent("DropFacade", [queues EXCEPT !.client_closed = TRUE])

\* TaskRequest::Stop, step by step: handle_stop asserts that the client
\* runs, pauses the source, awaits one recv after the other, handling each
\* message, and returns on EOF.  The loop is inside handle_task all the while.
StopBegin ==
    /\ Alive
    /\ IF ~running
       THEN Dispatched(Panic(Task, "assertion failed: self.running"), "task", "Stop", NoArg)
       ELSE /\ queues' = [queues EXCEPT !.draining = TRUE]
            /\ out' = <<>>
            /\ ev' = [src |-> "task", kind |-> "Stop", arg |-> NoArg]
            /\ UNCHANGED <<state, running, modify_request, channels, gpadls,
                           teardown_gpadls, channel_requests, panic, saved, exited>>

\* Variant: the drain takes the newest message first.
StopDrain_newest ==
    /\ panic = "none" /\ ~exited /\ queues.draining
    /\ queues.synic # <<>>
    /\ \E o \in MessageOrders(Task, Last(queues.synic)) :
           LET t == handle_synic_message(Task, Last(queues.synic), o)
           IN  /\ Handled(t, "synic", Last(queues.synic).type, MsgArg(Last(queues.synic)))
               /\ queues' = [Restamped(queues, t) EXCEPT
                                !.synic = SubSeq(@, 1, Len(@) - 1)]
    /\ UNCHANGED <<saved, exited>>

\* recv returned a message: it goes through handle_synic_message.
StopDrain ==
    /\ panic = "none" /\ ~exited /\ queues.draining
    /\ queues.synic # <<>>
    /\ \E o \in MessageOrders(Task, Head(queues.synic)) :
           LET t == handle_synic_message(Task, Head(queues.synic), o)
           IN  /\ Handled(t, "synic", Head(queues.synic).type, MsgArg(Head(queues.synic)))
               /\ queues' = [Restamped(queues, t) EXCEPT !.synic = Tail(@)]
    /\ UNCHANGED <<saved, exited>>

\* Variant: the reply is sent and the client is left running.
StopEof_running ==
    /\ panic = "none" /\ ~exited /\ queues.draining
    /\ queues.synic = <<>>
    /\ Effects(Emit(Task, "rpc", [rpc |-> "stop"]), "task", "Stopped", NoArg)
    /\ running' = running
    /\ queues' = [queues EXCEPT !.draining = FALSE, !.late = 0]
    /\ UNCHANGED <<saved, exited>>

\* recv returned 0: the source has nothing left.
StopEof ==
    /\ panic = "none" /\ ~exited /\ queues.draining
    /\ queues.synic = <<>>
    /\ Effects(Emit(Task, "rpc", [rpc |-> "stop"]), "task", "Stopped", NoArg)
    /\ running' = FALSE
    /\ queues' = [queues EXCEPT !.draining = FALSE, !.late = 0]
    /\ UNCHANGED <<saved, exited>>

\* recv returned an error inside the drain.
StopError ==
    /\ panic = "none" /\ ~exited /\ queues.draining
    /\ Dispatched(Panic(Task, "Fatal error reading messages from synic"),
                  "synic", "Error", NoArg)

\* recv returned 0 to the loop: the source ended while the client runs.
SynicEof ==
    /\ Alive /\ running
    /\ queues.synic = <<>>
    /\ Dispatched(Panic(Task, "Unexpected end of file reading messages from synic."),
                  "synic", "Eof", NoArg)

\* recv returned an error to the loop.
SynicError ==
    /\ Alive /\ running
    /\ Dispatched(Panic(Task, "Error reading messages from synic"), "synic", "Error", NoArg)

\* client_request_recv yields a request.
ClientQueued ==
    /\ Alive /\ running
    /\ queues.client # <<>>
    /\ Handled(handle_client_request(Task, Head(queues.client)), "client",
               Head(queues.client).kind, NoArg)
    /\ queues' = [queues EXCEPT !.client = Tail(@)]
    /\ UNCHANGED <<saved, exited>>
\* Variant: the end of the facade's stream is seen whether the client runs or not.
ClientEnded_always ==
    /\ Alive
    /\ queues.client = <<>> /\ queues.client_closed
    /\ exited' = TRUE
    /\ out' = <<>>
    /\ ev' = [src |-> "client", kind |-> "Closed", arg |-> NoArg]
    /\ UNCHANGED <<state, running, modify_request, channels, gpadls, teardown_gpadls,
                   channel_requests, panic, queues, saved>>

\* client_request_recv yields None: run() returns.
ClientEnded ==
    /\ Alive /\ running
    /\ queues.client = <<>> /\ queues.client_closed
    /\ exited' = TRUE
    /\ out' = <<>>
    /\ ev' = [src |-> "client", kind |-> "Closed", arg |-> NoArg]
    /\ UNCHANGED <<state, running, modify_request, channels, gpadls, teardown_gpadls,
                   channel_requests, panic, queues, saved>>
\* message_recv yields a message.
SynicQueued ==
    /\ Alive /\ running
    /\ queues.synic # <<>>
    /\ \E o \in MessageOrders(Task, Head(queues.synic)) :
           LET t == handle_synic_message(Task, Head(queues.synic), o)
           IN  /\ Handled(t, "synic", Head(queues.synic).type, MsgArg(Head(queues.synic)))
               /\ queues' = [Restamped(queues, t) EXCEPT !.synic = Tail(@)]
    /\ UNCHANGED <<saved, exited>>
\* The place in q of the newest request sent on the endpoint via.
LastOn(q, via) ==
    CHOOSE i \in DOMAIN q : q[i].via = via /\ \A j \in i + 1 .. Len(q) : q[j].via # via

\* Variant: the newest request on an endpoint is received first.
ChannelQueued_newest ==
    \E c \in StreamIds, via \in Vias :
        /\ Alive /\ running
        /\ via \in LiveVia(c)
        /\ OnVia(queues.channel[c], via) # <<>>
        /\ LET i == LastOn(queues.channel[c], via)
               request == queues.channel[c][i].request
           IN  /\ Handled(handle_channel_request(Task, c, request), "channel", request.kind,
                          [channel_id |-> c, via |-> via])
               /\ queues' = [queues EXCEPT !.channel[c] = Without(@, i)]
        /\ UNCHANGED <<saved, exited>>

\* Variant: a channel's requests are received whether the client runs or not.
ChannelQueued_always ==
    \E c \in StreamIds, via \in Vias :
        /\ Alive
        /\ via \in LiveVia(c)
        /\ OnVia(queues.channel[c], via) # <<>>
        /\ LET i == FirstOn(queues.channel[c], via)
               request == queues.channel[c][i].request
           IN  /\ Handled(handle_channel_request(Task, c, request), "channel", request.kind,
                          [channel_id |-> c, via |-> via])
               /\ queues' = [queues EXCEPT !.channel[c] = Without(@, i)]
        /\ UNCHANGED <<saved, exited>>

\* channel_requests yields a request: SelectAll takes one of the streams that
\* are ready, and a stream yields its requests in the order they were sent.
ChannelQueued ==
    \E c \in StreamIds, via \in Vias :
        /\ Alive /\ running
        /\ via \in LiveVia(c)
        /\ OnVia(queues.channel[c], via) # <<>>
        /\ LET i == FirstOn(queues.channel[c], via)
               request == queues.channel[c][i].request
           IN  /\ Handled(handle_channel_request(Task, c, request), "channel", request.kind,
                          [channel_id |-> c, via |-> via])
               /\ queues' = [queues EXCEPT !.channel[c] = Without(@, i)]
        /\ UNCHANGED <<saved, exited>>

\* ---- parts of the program
\* The specifications below run parts of the program: the handlers a group of
\* claims is about, with the requests and messages that lead to them.  Every
\* behaviour of a part is a behaviour of Spec, the whole program, which comes
\* after them.

\* A host that accepts the version it is asked for.
RecvVersionAccepted ==
    \E f \in HostMasks : SynicMessage(VersionResponse2(1, "SUCCESSFUL", f), NoOrder)
RecvVersionAcceptedAll ==
    SynicMessage(VersionResponse2(1, "SUCCESSFUL", FeatureFlagsAll), NoOrder)

\* A host that offers one channel only.
OneChannel == CHOOSE c \in ChannelIds : TRUE
OneRecvOfferChannel ==
    \E p \in OfferPayloads : SynicMessage(OfferChannel(OneChannel, p), NoOrder)

\* What the facade, the host and the callers send ahead of the loop.
SendRequest ==
    FacadeSends(InitiateContactRequest([target_message_vp |-> 0, client_id |-> 0]))
SendMessage ==
    \E msg \in {VersionResponse2(1, "SUCCESSFUL", FeatureFlagsAll),
                 OfferChannel(OneChannel, "a"), OpenResult(OneChannel, STATUS_SUCCESS)} :
        HostSends(msg)
SendChannelRequest ==
    \E via \in Vias :
        \E request \in {OpenRequest(OneChannel, OneChannel), [kind |-> "Close"]} :
            CallerSends(OneChannel, via, request)

\* The connection: negotiation, offers, unload, modify, hvsock.  Channels are
\* offered and stay.
NextConnect ==
    \/ Start
    \/ ReqInitiateContact
    \/ ReqRequestOffers
    \/ ReqUnload
    \/ ReqModify
    \/ ReqHvsockConnect
    \/ RecvVersionResponse2
    \/ RecvVersionResponse
    \/ RecvOfferChannel
    \/ RecvAllOffersDelivered
    \/ RecvUnloadComplete
    \/ RecvModifyConnectionResponse
    \/ RecvTlConnectResult
    \/ RecvUnsupported

SpecConnect == Init /\ [][NextConnect]_vars

\* The life of a channel: offer, open, close, rescind, drop.
NextChannels ==
    \/ Start
    \/ ReqInitiateContact
    \/ RecvVersionAccepted
    \/ ReqRequestOffers
    \/ RecvAllOffersDelivered
    \/ RecvOfferChannel
    \/ RecvRescindChannelOffer
    \/ ChanOpen
    \/ RecvOpenResult
    \/ ChanClose
    \/ ChanDropped

SpecChannels == Init /\ [][NextChannels]_vars

\* A caller whose GPADLs have one value.
ChanGpadlOne ==
    \E c \in ChannelIds, via \in Vias, g \in GpadlIds : ChannelRequest(c, via, GpadlRequest(g))

\* The GPADLs of one channel, up to its rescind.
NextGpadls ==
    \/ Start
    \/ ReqInitiateContact
    \/ RecvVersionAcceptedAll
    \/ OneRecvOfferChannel
    \/ ChanGpadlOne
    \/ RecvGpadlCreated
    \/ ChanTeardownGpadl
    \/ RecvGpadlTorndown
    \/ RecvRescindChannelOffer

SpecGpadls == Init /\ [][NextGpadls]_vars

\* Retargeting a channel: ModifyChannel and its response.
NextChannelModify ==
    \/ Start
    \/ ReqInitiateContact
    \/ RecvVersionAccepted
    \/ ReqRequestOffers
    \/ RecvAllOffersDelivered
    \/ RecvOfferChannel
    \/ ChanModify
    \/ RecvModifyChannelResponse

SpecChannelModify == Init /\ [][NextChannelModify]_vars

\* Creating GPADLs of every buffer length on one channel.
NextGpadlRequest ==
    \/ Start
    \/ ReqInitiateContact
    \/ RecvVersionAcceptedAll
    \/ OneRecvOfferChannel
    \/ ChanGpadl
    \/ RecvGpadlCreated

SpecGpadlRequest == Init /\ [][NextGpadlRequest]_vars

\* Two channels, OneChannel and OtherChannel, that use the same GPADL id.
PairIds == {OneChannel, OtherChannel}
OneGpadl == CHOOSE g \in GpadlIds : TRUE
PairRecvOfferChannel ==
    \E c \in PairIds : SynicMessage(OfferChannel(c, "a"), NoOrder)
PairChanGpadl ==
    \E c \in PairIds, via \in Vias : ChannelRequest(c, via, GpadlRequest(OneGpadl))
PairRecvGpadlCreated ==
    \E c \in PairIds, s \in Statuses : SynicMessage(GpadlCreatedMsg(c, OneGpadl, s), NoOrder)
PairChanTeardownGpadl ==
    \E c \in PairIds, via \in Vias : ChannelRequest(c, via, TeardownGpadlRequest(OneGpadl))
PairRecvGpadlTorndown == SynicMessage(GpadlTorndown(OneGpadl), NoOrder)
PairRecvRescindChannelOffer ==
    \E c \in PairIds : \E o \in Orders(GpadlsOf(gpadls, c)) :
        /\ HeldWithin(c)
        /\ SynicMessage(RescindChannelOffer(c), o)

NextGpadlPair ==
    \/ Start
    \/ ReqInitiateContact
    \/ RecvVersionAcceptedAll
    \/ PairRecvOfferChannel
    \/ PairChanGpadl
    \/ PairRecvGpadlCreated
    \/ PairChanTeardownGpadl
    \/ PairRecvGpadlTorndown
    \/ PairRecvRescindChannelOffer

SpecGpadlPair == Init /\ [][NextGpadlPair]_vars

\* Save and restore: a client with one channel and one GPADL is saved, and a
\* fresh instance is restored from the snapshot.
NextSaveRestore ==
    \/ Start
    \/ ReqInitiateContact
    \/ RecvVersionAccepted
    \/ OneRecvOfferChannel
    \/ ChanOpen
    \/ RecvOpenResult
    \/ PairChanGpadl
    \/ PairRecvGpadlCreated
    \/ PairChanTeardownGpadl
    \/ TaskSave
    \/ NewInstance
    \/ TaskRestore

SpecSaveRestore == Init /\ [][NextSaveRestore]_vars

\* Stop and Start again, with the facade's requests, the host's messages and
\* a caller's requests waiting in their queues.
NextStopping ==
    \/ Start
    \/ StopBegin
    \/ StopDrain
    \/ StopEof
    \/ StopError
    \/ SendRequest
    \/ ClientQueued
    \/ SendMessage
    \/ SynicQueued
    \/ SendChannelRequest
    \/ ChannelQueued

SpecStopping == Init /\ [][NextStopping]_vars

\* The message source of a client that connects: what it hands over while
\* the client runs and while it is paused, its EOF and its errors.
NextDrain ==
    \/ Start
    \/ StopBegin
    \/ StopDrain
    \/ StopEof
    \/ StopError
    \/ SendRequest
    \/ ClientQueued
    \/ SendMessage
    \/ SynicQueued
    \/ SynicEof
    \/ SynicError

SpecDrain == Init /\ [][NextDrain]_vars

\* handle_stop awaits recv in a loop, and a source that honours the contract
\* of pause_message_stream returns the messages it holds and then EOF: a
\* message that waits is handled, and EOF follows the last of them.
SpecDrainFair == SpecDrain /\ WF_vars(StopDrain) /\ WF_vars(StopEof)

\* Every command of the owner, running or not, with the requests of the
\* facade and of a channel's caller and the host's messages waiting in their
\* queues, and a fresh client that is restored from a snapshot.  The host
\* accepts the version and offers the channel, and the channel's caller asks
\* to open it, while the client runs and while it is stopped.
NextLifecycle ==
    \/ Start
    \/ StopBegin
    \/ StopDrain
    \/ StopEof
    \/ TaskInspect
    \/ TaskSave
    \/ NewInstance
    \/ TaskRestore
    \/ SendRequest
    \/ ClientQueued
    \/ \E msg \in {VersionResponse2(1, "SUCCESSFUL", FeatureFlagsAll),
                    OfferChannel(OneChannel, "a")} : HostSends(msg)
    \/ SynicQueued
    \/ CallerSends(OneChannel, Cur, OpenRequest(OneChannel, OneChannel))
    \/ ChannelQueued

SpecLifecycle == Init /\ [][NextLifecycle]_vars

\* The end of the loop: the owner or the facade goes away, while the client
\* runs or is stopped.
NextTermination ==
    \/ Start
    \/ StopBegin
    \/ StopDrain
    \/ StopEof
    \/ TaskClosed
    \/ SendRequest
    \/ FacadeDropped
    \/ ClientQueued
    \/ ClientEnded
    \/ SendMessage
    \/ SynicQueued

SpecTermination == Init /\ [][NextTermination]_vars

\* select! polls every branch that is live and takes one that is ready: a
\* request that waits, or the end of the facade's stream, is received as long
\* as the client keeps running.  A Stop that has begun completes: the paused
\* source returns what it holds and then EOF.
SpecTerminationFair ==
    /\ SpecTermination
    /\ WF_vars(ClientQueued) /\ WF_vars(ClientEnded)
    /\ WF_vars(StopDrain) /\ WF_vars(StopEof)

\* A caller that sends GPADL requests ahead of the loop: one whose buffer
\* needs a header and a body, and the teardown of the same GPADL.
SendGpadlRequest ==
    \E via \in Vias :
        \E request \in {GpadlRequestOf(OneGpadl, GpadlHeaderMaxDataValues + 1),
                         TeardownGpadlRequest(OneGpadl)} :
            CallerSends(OneChannel, via, request)

\* The order of what goes out: requests that wait on a channel's endpoint,
\* and a rescind.
NextOrdering ==
    \/ Start
    \/ ReqInitiateContact
    \/ RecvVersionAcceptedAll
    \/ OneRecvOfferChannel
    \/ SendGpadlRequest
    \/ ChannelQueued
    \/ RecvGpadlCreated
    \/ RecvRescindChannelOffer

SpecOrdering == Init /\ [][NextOrdering]_vars

\* A channel offered again while an endpoint of its previous offer is still
\* held: the rescinded record's request stream is one more live stream.
NextReoffer ==
    \/ Start
    \/ ReqInitiateContact
    \/ RecvVersionAcceptedAll
    \/ OneRecvOfferChannel
    \/ RecvRescindChannelOffer
    \/ ChanOpen
    \/ RecvOpenResult
    \/ ChanDropped

SpecReoffer == Init /\ [][NextReoffer]_vars

\* Callers that use a GPADL id on one channel at a time, and only the
\* endpoint of a channel's current offer.
UniqueChanGpadl ==
    \E c \in PairIds :
        /\ \A k \in DOMAIN gpadls : k[2] # OneGpadl
        /\ ChannelRequest(c, Cur, GpadlRequest(OneGpadl))
UniqueChanTeardownGpadl ==
    \E c \in PairIds : ChannelRequest(c, Cur, TeardownGpadlRequest(OneGpadl))

NextGpadlReuse ==
    \/ Start
    \/ PairRecvOfferChannel
    \/ UniqueChanGpadl
    \/ PairRecvGpadlCreated
    \/ UniqueChanTeardownGpadl
    \/ PairRecvGpadlTorndown
    \/ PairRecvRescindChannelOffer

SpecGpadlReuse == Init /\ [][NextGpadlReuse]_vars

\* A host that answers every GpadlTeardown, and a loop whose select! takes a
\* message that is ready: while the client runs, a GpadlTorndown arrives and
\* is handled.  SpecGpadlReuseFair is the same for callers that use a GPADL
\* id on one channel at a time.
SpecGpadlPairFair == SpecGpadlPair /\ WF_vars(PairRecvGpadlTorndown)
SpecGpadlReuseFair == SpecGpadlReuse /\ WF_vars(PairRecvGpadlTorndown)

\* A channel with an Open in flight, and every other request and message
\* that can meet it.
NextOpening ==
    \/ Start
    \/ ReqInitiateContact
    \/ RecvVersionAcceptedAll
    \/ ReqUnload
    \/ RecvUnloadComplete
    \/ OneRecvOfferChannel
    \/ ChanOpen
    \/ RecvOpenResult
    \/ ChanClose
    \/ ChanGpadlOne
    \/ ChanTeardownGpadl
    \/ ChanModify
    \/ RecvModifyChannelResponse
    \/ ReqModify
    \/ RecvModifyConnectionResponse
    \/ ChanDropped

SpecOpening == Init /\ [][NextOpening]_vars

\* The whole program.
Next ==
    \/ Start
    \/ ReqInitiateContact
    \/ ReqRequestOffers
    \/ ReqUnload
    \/ ReqModify
    \/ ReqHvsockConnect
    \/ RecvVersionResponse2
    \/ RecvVersionResponse
    \/ RecvOfferChannel
    \/ RecvAllOffersDelivered
    \/ RecvUnloadComplete
    \/ RecvModifyConnectionResponse
    \/ RecvGpadlCreated
    \/ RecvOpenResult
    \/ RecvGpadlTorndown
    \/ RecvRescindChannelOffer
    \/ RecvModifyChannelResponse
    \/ RecvTlConnectResult
    \/ RecvUnsupported
    \/ ChanOpen
    \/ ChanClose
    \/ ChanGpadl
    \/ ChanTeardownGpadl
    \/ ChanModify
    \/ ChanDropped
    \/ TaskInspect
    \/ StopError
    \/ SynicEof
    \/ SynicError
    \/ TaskSave
    \/ TaskRestore
    \/ TaskRestoreDuplicate
    \/ TaskClosed
    \/ NewInstance
    \/ SendRequest
    \/ SendMessage
    \/ SendChannelRequest
    \/ FacadeDropped
    \/ ClientQueued
    \/ ClientEnded
    \/ SynicQueued
    \/ ChannelQueued
    \/ SendGpadlRequest
    \/ PairRecvOfferChannel
    \/ PairChanGpadl
    \/ PairRecvGpadlCreated
    \/ PairChanTeardownGpadl
    \/ PairRecvGpadlTorndown
    \/ PairRecvRescindChannelOffer
    \/ UniqueChanGpadl
    \/ UniqueChanTeardownGpadl
    \/ StopBegin
    \/ StopDrain
    \/ StopEof

Spec == Init /\ [][Next]_vars

\* ============================================================== properties

Registries == <<channels, gpadls, teardown_gpadls, modify_request, channel_requests>>

PostOf(msg) == [sink |-> "synic", msg |-> msg]
IsInitiateContact(e) ==
    e.sink = "synic" /\ e.msg.type \in {"InitiateContact", "InitiateContact2"}
ContactsPosted(o) == SelectSeq(o, IsInitiateContact)

\* The two contact messages of a negotiation for request r.
CopperContact(r) ==
    PostOf([type |-> "InitiateContact2", version_requested |-> Copper,
            target_message_vp |-> r.target_message_vp, sint |-> SINT, vtl |-> VTL,
            feature_flags |-> SUPPORTED_FEATURE_FLAGS, client_id |-> r.client_id])
IronContact(r) ==
    PostOf([type |-> "InitiateContact", version_requested |-> Iron,
            target_message_vp |-> r.target_message_vp, sint |-> SINT, vtl |-> VTL,
            feature_flags |-> 0])

IsVersionResponse(k) == k \in {"VersionResponse", "VersionResponse2"}

VersionResponses ==
    {VersionResponse2(s, c, f) : s \in {0, 1}, c \in ConnectionStates, f \in HostMasks}
    \cup {VersionResponse(s, c) : s \in {0, 1}, c \in ConnectionStates}

\* C1: version negotiation.  A connect request dispatched in Disconnected posts
\* exactly InitiateContact2(Copper, full mask); a version response that rejects
\* Copper posts exactly InitiateContact(Iron, empty mask) for the same request;
\* one that rejects Iron is fatal and posts nothing; no other step posts an
\* InitiateContact.  So a negotiation posts one contact per version, newest first.
C1_VersionNegotiation ==
    [][ /\ \A r \in ContactRequests :
             (ev'.kind = "InitiateContact" /\ state.kind = "Disconnected"
                 /\ ClientRequest(InitiateContactRequest(r)))
                 => /\ out' = <<CopperContact(r)>>
                    /\ state' = Connecting(Copper, r)
        /\ \A m \in VersionResponses :
             (IsVersionResponse(ev'.kind) /\ state.kind = "Connecting"
                 /\ m.version_supported = 0 /\ SynicMessage(m, NoOrder))
                 => IF state.version = Copper
                    THEN /\ out' = <<IronContact(state.request[1])>>
                         /\ state' = Connecting(Iron, state.request[1])
                         /\ panic' = "none"
                    ELSE /\ panic' # "none"
                         /\ out' = <<>>
        /\ ContactsPosted(out') # <<>>
             => /\ Len(ContactsPosted(out')) = 1
                /\ \/ state.kind = "Disconnected" /\ ev'.kind = "InitiateContact"
                   \/ state.kind = "Connecting" /\ state.version = Copper
                        /\ IsVersionResponse(ev'.kind)
      ]_vars

\* C1 witness: Copper was rejected and the Iron contact has just been posted.
C1_Witness ==
    /\ state.kind = "Connecting" /\ state.version = Iron
    /\ IsVersionResponse(ev.kind)
    /\ out = <<IronContact(state.request[1])>>

ConnectReplies(o) == SentOn(o, "connect")
ConnectReply(r) == [sink |-> "connect", msg |-> [reply |-> r]]

\* C2: a version response that accepts the attempted version v (supported,
\* SUCCESSFUL) in Connecting(v) moves to Connected with version v and delivers
\* exactly one Some(VersionInfo) carrying the stored version and flags; while
\* Connecting, no other host message or request than a new connect request
\* delivers anything on the connect channel.
C2_ConnectReply ==
    [][ /\ \A m \in VersionResponses :
             (IsVersionResponse(ev'.kind) /\ state.kind = "Connecting"
                 /\ m.version_supported # 0 /\ m.connection_state = "SUCCESSFUL"
                 /\ SynicMessage(m, NoOrder))
                 => /\ state'.kind = "Connected"
                    /\ state'.version = state.version
                    /\ out' = <<ConnectReply(Some(VersionInfo(state.version,
                                                              state'.feature_flags)))>>
        /\ (state.kind = "Connecting" /\ ev'.kind # "InitiateContact"
              /\ ConnectReplies(out') # <<>>)
             => /\ IsVersionResponse(ev'.kind)
                /\ state'.kind = "Connected"
                /\ Len(ConnectReplies(out')) = 1
      ]_vars

\* C2 witness: the Iron attempt was accepted and answered.
C2_Witness ==
    /\ state.kind = "Connected" /\ state.version = Iron
    /\ IsVersionResponse(ev.kind)
    /\ out = <<ConnectReply(Some(VersionInfo(Iron, 0)))>>

\* C3: the flags stored on acceptance are the host's mask restricted to the
\* client's supported mask for Copper, and empty for Iron.  Does not hold:
\* handle_version_response stores the host's mask as received, so a bit outside
\* SUPPORTED_FEATURE_FLAGS (UnknownFeatureBit) ends up in Connected.
C3_FeatureIntersection ==
    [][ \A s \in {0, 1}, c \in ConnectionStates, f \in HostMasks :
          (ev'.kind = "VersionResponse2" /\ state.kind = "Connecting"
              /\ state'.kind = "Connected"
              /\ SynicMessage(VersionResponse2(s, c, f), NoOrder))
              => state'.feature_flags =
                     IF state.version >= Copper
                     THEN BitAnd(SUPPORTED_FEATURE_FLAGS, f)
                     ELSE 0
      ]_vars

\* C4: a connect request in any state but Disconnected is answered None, posts
\* nothing and changes neither the connection state nor a registry.
C4_ConnectRejected ==
    [][ \A r \in ContactRequests :
          (ev'.kind = "InitiateContact" /\ state.kind # "Disconnected"
              /\ ClientRequest(InitiateContactRequest(r)))
              => /\ out' = <<ConnectReply(None)>>
                 /\ state' = state
                 /\ Registries' = Registries
                 /\ panic' = "none"
      ]_vars

\* C4 witness: a connect request was refused while offers were being requested
\* and a channel was registered.
C4_Witness ==
    /\ ev.kind = "InitiateContact"
    /\ state.kind = "RequestingOffers"
    /\ out = <<ConnectReply(None)>>
    /\ DOMAIN channels # {}

\* C5: RequestOffers in Connected moves to RequestingOffers with the same
\* version info and posts exactly one RequestOffers; in any other state it
\* sends the None marker on the offer stream, posts nothing and keeps the state.
C5_RequestOffers ==
    [][ (ev'.kind = "RequestOffers" /\ ClientRequest([kind |-> "RequestOffers"]))
          => IF state.kind = "Connected"
             THEN /\ state' = [state EXCEPT !.kind = "RequestingOffers"]
                  /\ out' = <<PostOf([type |-> "RequestOffers"])>>
             ELSE /\ state' = state
                  /\ out' = <<[sink |-> "offers", msg |-> [item |-> "None"]]>>
      ]_vars

\* C5 witness: offers were requested on a Copper connection.
C5_Witness ==
    /\ ev.kind = "RequestOffers"
    /\ state.kind = "RequestingOffers" /\ state.version = Copper
    /\ out = <<PostOf([type |-> "RequestOffers"])>>

Sentinel == [sink |-> "offers", msg |-> [item |-> "AllOffersDelivered"]]

\* C6: AllOffersDelivered in RequestingOffers sends exactly one sentinel on the
\* offer stream and returns to Connected with the same version info; in any
\* other state it sends nothing and keeps the state.
C6_AllOffersDelivered ==
    [][ (ev'.kind = "AllOffersDelivered"
            /\ SynicMessage([type |-> "AllOffersDelivered"], NoOrder))
          => IF state.kind = "RequestingOffers"
             THEN /\ state' = [state EXCEPT !.kind = "Connected"]
                  /\ out' = <<Sentinel>>
             ELSE /\ state' = state
                  /\ out' = <<>>
      ]_vars

\* C6 witness: the sentinel was sent and the client is Connected again.
C6_Witness ==
    /\ ev.kind = "AllOffersDelivered"
    /\ state.kind = "Connected"
    /\ out = <<Sentinel>>

OfferOf(c, p) == OfferChannel(c, p)
OfferOnStream(offer) == [sink |-> "offers", msg |-> [item |-> "Offer", offer |-> offer]]
OfferNotified(offer) == [sink |-> "notify", msg |-> [type |-> "Offer", offer |-> offer]]
InSeq(o, e) == \E i \in DOMAIN o : o[i] = e
Count(o, e) == Len(SelectSeq(o, LAMBDA x : x = e))
IndexOf(o, e) == CHOOSE i \in DOMAIN o : o[i] = e

\* C7: an OfferChannel for an id not in the registry adds one record in
\* sub-state Offered holding the offer as sent, and exposes it exactly once: on
\* the offer stream when the state is RequestingOffers, on the notification sink
\* otherwise.  The sentinel is sent only by the AllOffersDelivered that ends
\* RequestingOffers, so the offers of that window precede it on the stream.
C7_OfferExposedOnce ==
    [][ /\ \A c \in ChannelIds, p \in OfferPayloads :
             (ev'.kind = "OfferChannel" /\ c \notin DOMAIN channels
                 /\ SynicMessage(OfferOf(c, p), NoOrder))
                 => /\ channels' = MapInsert(channels, c,
                                             [offer |-> OfferOf(c, p),
                                              state |-> ChannelOffered,
                                              modify_response_send |-> None])
                    /\ out' = IF state.kind = "RequestingOffers"
                              THEN <<OfferOnStream(OfferOf(c, p))>>
                              ELSE <<OfferNotified(OfferOf(c, p))>>
                    /\ state' = state
        /\ InSeq(out', Sentinel)
             => /\ state.kind = "RequestingOffers" /\ state'.kind = "Connected"
                /\ ev'.kind = "AllOffersDelivered"
                /\ out' = <<Sentinel>>
      ]_vars

\* C7 witness: an offer arrived while offers were requested and went on the
\* offer stream.
C7_Witness ==
    /\ ev.kind = "OfferChannel"
    /\ state.kind = "RequestingOffers"
    /\ 0 \in DOMAIN channels /\ channels[0].state = ChannelOffered
    /\ out = <<OfferOnStream(channels[0].offer)>>

RelIdReleased(c) == PostOf([type |-> "RelIdReleased", channel_id |-> c])
Revoke(c) == [sink |-> "notify", msg |-> [type |-> "Revoke", channel_id |-> c]]
GpadlTeardownPost(c, g) ==
    PostOf([type |-> "GpadlTeardown", channel_id |-> c, gpadl_id |-> g])
TeardownGpadlResponse(c, g) ==
    [sink |-> "response", msg |-> [type |-> "TeardownGpadl", channel_id |-> c, gpadl_id |-> g]]

\* C8: handling RescindChannelOffer(id) for a registered channel leaves no
\* channel record with id and no GPADL record keyed by id, posts exactly one
\* RelIdReleased(id) and emits exactly one Revoke(id) on the notification sink,
\* after the RelIdReleased.
C8_Rescind ==
    [][ ev'.kind = "RescindChannelOffer" =>
        \A c \in DOMAIN channels : \A o \in Orders(GpadlsOf(gpadls, c)) :
          SynicMessage(RescindChannelOffer(c), o)
              => /\ c \notin DOMAIN channels'
                 /\ GpadlsOf(gpadls', c) = {}
                 /\ Count(out', RelIdReleased(c)) = 1
                 /\ Count(out', Revoke(c)) = 1
                 /\ IndexOf(out', RelIdReleased(c)) < IndexOf(out', Revoke(c))
                 /\ panic' = "none"
      ]_vars

\* C8 witness: a channel with a GPADL was rescinded.
C8_Witness ==
    /\ ev.kind = "RescindChannelOffer"
    /\ channels = <<>> /\ gpadls = <<>>
    /\ out = <<GpadlTeardownPost(0, 1), RelIdReleased(0), Revoke(0)>>

IsGpadlTeardownPost(e) == e.sink = "synic" /\ e.msg.type = "GpadlTeardown"

\* C9: a rescind gives each GPADL of the channel that is TearingDown one
\* TeardownGpadl response on the channel's response endpoint and no wire
\* message, and each other GPADL one GpadlTeardown and no response; every such
\* GPADL id is then mapped to None in teardown_gpadls.  An entry that is None
\* stays None until a GpadlTorndown for the id removes it, and that message
\* sends nothing and changes nothing else.
C9_RescindGpadls ==
    [][ /\ ev'.kind = "RescindChannelOffer" =>
           \A c \in DOMAIN channels : \A o \in Orders(GpadlsOf(gpadls, c)) :
             SynicMessage(RescindChannelOffer(c), o)
                 => /\ \A g \in GpadlsOf(gpadls, c) :
                         /\ IF gpadls[<<c, g>>].kind = "TearingDown"
                            THEN /\ Count(out', TeardownGpadlResponse(c, g)) = 1
                                 /\ Count(out', GpadlTeardownPost(c, g)) = 0
                            ELSE /\ Count(out', TeardownGpadlResponse(c, g)) = 0
                                 /\ Count(out', GpadlTeardownPost(c, g)) = 1
                         /\ g \in DOMAIN teardown_gpadls'
                         /\ teardown_gpadls'[g] = None
                    /\ Len(SentOn(out', "response")) + Len(SelectSeq(out', IsGpadlTeardownPost))
                           = Cardinality(GpadlsOf(gpadls, c))
        /\ \A g \in DOMAIN teardown_gpadls :
             (teardown_gpadls[g] = None /\ panic' = "none")
                 => IF ev'.kind = "GpadlTorndown" /\ ev'.arg.gpadl_id = g
                    THEN /\ teardown_gpadls' = MapRemove(teardown_gpadls, g)
                         /\ out' = <<>>
                         /\ UNCHANGED <<state, channels, gpadls, modify_request,
                                        channel_requests>>
                    ELSE g \in DOMAIN teardown_gpadls' /\ teardown_gpadls'[g] = None
      ]_vars

\* C9 witness: one rescind met a GPADL that was TearingDown and one that was
\* not; both ids are now marked None.
C9_Witness ==
    /\ ev.kind = "RescindChannelOffer"
    /\ \E g, h \in GpadlIds :
         /\ g # h
         /\ InSeq(out, TeardownGpadlResponse(0, g))
         /\ InSeq(out, GpadlTeardownPost(0, h))
         /\ teardown_gpadls = (g :> None) @@ (h :> None)
    /\ gpadls = <<>>

IsOpenPost(e) == e.sink = "synic" /\ e.msg.type \in {"OpenChannel", "OpenChannel2"}
OpenRefused(c, token) ==
    [sink |-> "rpc", msg |-> [rpc |-> "open", channel_id |-> c, token |-> token,
                              value |-> FALSE]]

\* C10: an Open for a channel in sub-state Offered posts exactly one open
\* message for the channel and moves it to Opening holding the request's reply
\* sink (or trips the event-flag assertion and posts nothing); an Open for a
\* channel in Opening or Opened is answered false on its own sink, posts
\* nothing and leaves the registry unchanged.  No other step posts an open
\* message, so a channel never has two Opens outstanding.
C10_OpenOnlyWhenOffered ==
    [][ /\ ev'.kind = "Open" =>
             \A c \in ChannelIds, via \in Vias : \A e \in EventFlags(c) :
             (ev'.arg = [channel_id |-> c, via |-> via] /\ c \in DOMAIN channels
                 /\ ChannelRequest(c, via, OpenRequest(c, e)))
                 => IF channels[c].state.kind = "Offered"
                    THEN \/ /\ panic' = "none"
                            /\ Len(out') = 1 /\ IsOpenPost(out'[1])
                            /\ out'[1].msg.channel_id = c
                            /\ channels' = [channels EXCEPT ![c].state =
                                              ChannelOpening(OpenRequest(c, e).rpc.token)]
                         \/ /\ panic' # "none"
                            /\ e # c
                            /\ out' = <<>>
                    ELSE /\ out' = <<OpenRefused(c, OpenRequest(c, e).rpc.token)>>
                         /\ channels' = channels
                         /\ panic' = "none"
        /\ (\E i \in DOMAIN out' : IsOpenPost(out'[i]))
             => /\ ev'.kind = "Open"
                /\ ev'.arg.channel_id \in DOMAIN channels
                /\ channels[ev'.arg.channel_id].state.kind = "Offered"
      ]_vars

\* C10 witness: a second Open arrived while the first was pending and was
\* refused on its own sink; the channel still holds the first one's sink.
C10_Witness ==
    /\ ev.kind = "Open"
    /\ 0 \in DOMAIN channels /\ channels[0].state.kind = "Opening"
    /\ \E token \in {1, 2} :
         /\ token # channels[0].state.sink
         /\ out = <<OpenRefused(0, token)>>

OpenChannelPost(c, rpc) ==
    PostOf([type |-> "OpenChannel", channel_id |-> c, open_id |-> 0,
            ring_buffer_gpadl_id |-> rpc.open_data.ring_gpadl_id,
            target_vp |-> rpc.open_data.target_vp,
            downstream_ring_buffer_page_offset |-> rpc.open_data.ring_offset,
            user_data |-> rpc.open_data.user_data])
OpenChannel2Post(c, rpc) ==
    PostOf([type |-> "OpenChannel2", channel_id |-> c, open_id |-> 0,
            ring_buffer_gpadl_id |-> rpc.open_data.ring_gpadl_id,
            target_vp |-> rpc.open_data.target_vp,
            downstream_ring_buffer_page_offset |-> rpc.open_data.ring_offset,
            user_data |-> rpc.open_data.user_data,
            connection_id |-> rpc.open_data.connection_id,
            event_flag |-> rpc.open_data.event_flag,
            flags |-> rpc.flags])
SignalFlags(flags) ==
    guest_specified_signal_parameters(flags) \/ channel_interrupt_redirection(flags)

\* C11: an Open accepted in a state that has a negotiated version (Connected,
\* RequestingOffers, Disconnecting) posts OpenChannel2 when the negotiated flags
\* include guest_specified_signal_parameters or channel_interrupt_redirection;
\* it posts OpenChannel, and requires event_flag = channel_id, only when neither
\* flag was negotiated.  Does not hold: handle_open_channel looks for the flags
\* in Connected alone, so in RequestingOffers and Disconnecting it posts
\* OpenChannel (or trips the event-flag assertion) whatever was negotiated.
C11_OpenMessageKind ==
    [][ \A c \in ChannelIds, via \in Vias : \A e \in EventFlags(c) :
          (ev'.kind = "Open" /\ c \in DOMAIN channels
              /\ channels[c].state.kind = "Offered"
              /\ get_version(state) # None
              /\ ChannelRequest(c, via, OpenRequest(c, e)))
              => IF SignalFlags(state.feature_flags)
                 THEN /\ out' = <<OpenChannel2Post(c, OpenRequest(c, e).rpc)>>
                      /\ panic' = "none"
                 ELSE \/ /\ e = c
                         /\ out' = <<OpenChannelPost(c, OpenRequest(c, e).rpc)>>
                         /\ panic' = "none"
                      \/ /\ e # c
                         /\ out' = <<>>
                         /\ panic' # "none"
      ]_vars

OpenReply(c, token, value) ==
    [sink |-> "rpc", msg |-> [rpc |-> "open", channel_id |-> c, token |-> token,
                              value |-> value]]

\* C12: an OpenResult for a registered channel sets its sub-state to Opened
\* when the status is success and to Offered otherwise, whatever the sub-state
\* was; when it was Opening the held Open reply sink is completed exactly once
\* with that boolean, and when it was not nothing is completed.
C12_OpenResult ==
    [][ ev'.kind = "OpenResult" =>
        \A c \in DOMAIN channels, s \in Statuses :
          SynicMessage(OpenResult(c, s), NoOrder)
              => /\ channels' = [channels EXCEPT ![c].state =
                                   IF s = STATUS_SUCCESS THEN ChannelOpened
                                   ELSE ChannelOffered]
                 /\ out' = IF channels[c].state.kind = "Opening"
                           THEN <<OpenReply(c, channels[c].state.sink, s = STATUS_SUCCESS)>>
                           ELSE <<>>
                 /\ panic' = "none"
      ]_vars

\* C12 witness: the host refused a pending Open; the caller was told false and
\* the channel is Offered again.
C12_Witness ==
    /\ ev.kind = "OpenResult"
    /\ 0 \in DOMAIN channels /\ channels[0].state = ChannelOffered
    /\ \E token \in {1, 2} : out = <<OpenReply(0, token, FALSE)>>

CloseChannelPost(c) == PostOf([type |-> "CloseChannel", channel_id |-> c])

\* C13: a Close on a channel in sub-state Opened posts exactly one
\* CloseChannel for the channel and sets the sub-state to Offered; a Close on a
\* channel in Offered or Opening posts nothing and leaves the record, a held
\* Open reply sink included, as it was.
C13_Close ==
    [][ ev'.kind = "Close" =>
        \A c \in DOMAIN channels, via \in Vias :
          ChannelRequest(c, via, [kind |-> "Close"])
              => /\ IF channels[c].state.kind = "Opened"
                    THEN /\ out' = <<CloseChannelPost(c)>>
                         /\ channels' = [channels EXCEPT ![c].state = ChannelOffered]
                    ELSE /\ out' = <<>>
                         /\ channels' = channels
                 /\ panic' = "none"
      ]_vars

\* C13 witness: an open channel was closed.
C13_Witness ==
    /\ ev.kind = "Close"
    /\ 0 \in DOMAIN channels /\ channels[0].state = ChannelOffered
    /\ out = <<CloseChannelPost(0)>>

ModifyReply(token, connection_state) ==
    [sink |-> "rpc", msg |-> [rpc |-> "modify", token |-> token,
                              connection_state |-> connection_state]]
IsModifyConnectionPost(e) == e.sink = "synic" /\ e.msg.type = "ModifyConnection"
ModifyPermitted ==
    /\ state.kind = "Connected" /\ modify_connection(state.feature_flags)
    /\ modify_request = None

\* C14: a modify-connection request is answered FAILED_UNKNOWN_FAILURE on its
\* own sink, posts nothing and changes no state whenever the state is not
\* Connected, or the negotiated flags lack modify_connection, or a modify is in
\* flight.  A ModifyConnection is posted only by a modify request that finds the
\* pending slot empty and fills it, so at most one is outstanding.
C14_ModifyRefused ==
    [][ /\ (ev'.kind = "Modify" /\ ev'.src = "client" /\ ~ModifyPermitted
              /\ ClientRequest(ModifyRequest))
             => /\ out' = <<ModifyReply(ModifyRequest.request.token,
                                        "FAILED_UNKNOWN_FAILURE")>>
                /\ state' = state
                /\ Registries' = Registries
                /\ panic' = "none"
        /\ SelectSeq(out', IsModifyConnectionPost) # <<>>
             => /\ ev'.kind = "Modify" /\ ev'.src = "client"
                /\ ModifyPermitted
                /\ modify_request' # None
                /\ Len(SelectSeq(out', IsModifyConnectionPost)) = 1
      ]_vars

\* C14 witness: a second modify was refused while the first is in flight on a
\* connection that supports modify_connection.
C14_Witness ==
    /\ ev.kind = "Modify" /\ ev.src = "client"
    /\ state.kind = "Connected" /\ modify_connection(state.feature_flags)
    /\ modify_request # None /\ modify_request[1].token = 1
    /\ out = <<ModifyReply(2, "FAILED_UNKNOWN_FAILURE")>>

ModifyConnectionResponse(cs) ==
    [type |-> "ModifyConnectionResponse", connection_state |-> cs]
ModifyConnectionPost(request) ==
    PostOf([type |-> "ModifyConnection", monitor_page |-> request.monitor_page])
ModifyRepliesTo(o, token) ==
    SelectSeq(o, LAMBDA e : e.sink = "rpc" /\ e.msg.rpc = "modify" /\ e.msg.token = token)

\* C15: an accepted modify-connection request posts one ModifyConnection and
\* its reply sink sits in the pending slot, uncompleted, through every other
\* event; the next ModifyConnectionResponse (one that parses under the
\* negotiated version) completes it exactly once with the host's
\* connection_state and clears the slot.  A ModifyConnectionResponse that finds
\* the slot empty completes nothing and changes no state.
C15_ModifyCompleted ==
    [][ /\ (ev'.kind = "Modify" /\ ev'.src = "client" /\ ModifyPermitted
              /\ ClientRequest(ModifyRequest))
             => /\ out' = <<ModifyConnectionPost(ModifyRequest.request)>>
                /\ modify_request' = Some(ModifyRequest.request)
                /\ state' = state
        /\ (modify_request # None /\ ev'.kind # "ModifyConnectionResponse"
              /\ panic' = "none")
             => /\ modify_request' = modify_request
                /\ ModifyRepliesTo(out', modify_request[1].token) = <<>>
        /\ ev'.kind = "ModifyConnectionResponse" =>
             \A cs \in ConnectionStates :
               (MessageSupported("ModifyConnectionResponse", get_version(state))
                   /\ SynicMessage(ModifyConnectionResponse(cs), NoOrder))
                   => /\ IF modify_request # None
                         THEN /\ out' = <<ModifyReply(modify_request[1].token, cs)>>
                              /\ modify_request' = None
                         ELSE /\ out' = <<>>
                              /\ modify_request' = modify_request
                      /\ UNCHANGED <<state, channels, gpadls, teardown_gpadls,
                                     channel_requests>>
                      /\ panic' = "none"
      ]_vars

\* C15 witness: the host answered the pending modify and the caller got the
\* host's connection state; the slot is empty again.
C15_Witness ==
    /\ ev.kind = "ModifyConnectionResponse"
    /\ out = <<ModifyReply(1, "FAILED_LOW_RESOURCES")>>
    /\ modify_request = None
    /\ state.kind = "Connected"

ModifyChannelPost(c, rpc) ==
    PostOf([type |-> "ModifyChannel", channel_id |-> c, target_vp |-> rpc.target_vp])
ModifyChannelReply(c, token, status) ==
    [sink |-> "rpc", msg |-> [rpc |-> "modify_channel", channel_id |-> c,
                              token |-> token, status |-> status]]

\* C16: a ModifyChannel request on a registered channel with none in flight is
\* accepted in every connection state that has a negotiated version of Iron or
\* later: it posts one ModifyChannel{channel_id, target_vp} and stashes the
\* reply sink; the next ModifyChannelResponse for the channel takes the sink and
\* delivers the host's status exactly once.  Does not hold: handle_modify_channel
\* asserts check_version(Iron), which is true in Connected alone, so the request
\* aborts the task in RequestingOffers and Disconnecting.
C16_ModifyChannel ==
    [][ /\ (ev'.kind = "Modify" /\ ev'.src = "channel") =>
             \A c \in DOMAIN channels, via \in Vias :
               (get_version(state) # None /\ state.version >= Iron
                   /\ channels[c].modify_response_send = None
                   /\ ChannelRequest(c, via, ModifyChannelRequest))
                   => /\ out' = <<ModifyChannelPost(c, ModifyChannelRequest.rpc)>>
                      /\ channels' = [channels EXCEPT ![c].modify_response_send =
                                        Some(ModifyChannelRequest.rpc.token)]
                      /\ panic' = "none"
        /\ ev'.kind = "ModifyChannelResponse" =>
             \A c \in DOMAIN channels, s \in Statuses :
               (channels[c].modify_response_send # None
                   /\ SynicMessage(ModifyChannelResponse(c, s), NoOrder))
                   => /\ out' = <<ModifyChannelReply(c, channels[c].modify_response_send[1], s)>>
                      /\ channels' = [channels EXCEPT ![c].modify_response_send = None]
      ]_vars

RECURSIVE Payloads(_)
Payloads(o) == IF o = <<>> THEN <<>> ELSE Head(o).msg.data \o Payloads(Tail(o))
CeilDiv(a, b) == (a + b - 1) \div b
BodiesFor(n) ==
    IF n > GpadlHeaderMaxDataValues
    THEN CeilDiv(n - GpadlHeaderMaxDataValues, GpadlBodyMaxDataValues)
    ELSE 0

\* C17: a Gpadl request with n values (8 * n within the header's len field) for
\* a key not in the registry inserts (channel_id, gpadl_id) in sub-state Offered
\* holding the reply sink and posts, in this order, one GpadlHeader with the
\* first min(n, MAX_HEADER_VALUES) values, len = 8 * n and the caller's count,
\* then ceil(max(0, n - MAX_HEADER_VALUES) / MAX_BODY_VALUES) GpadlBody messages
\* of at most MAX_BODY_VALUES values each; the payloads concatenated are the
\* caller's array.  A request whose key is present is fatal.
C17_GpadlSplit ==
    [][ ev'.kind = "Gpadl" =>
        \A c \in DOMAIN channels, via \in Vias, g \in GpadlIds, n \in GpadlBufLens :
          ChannelRequest(c, via, GpadlRequestOf(g, n))
              => LET rpc == GpadlRequestOf(g, n).rpc
                 IN  IF <<c, g>> \in DOMAIN gpadls
                     THEN panic' # "none"
                     ELSE /\ panic' = "none"
                          /\ gpadls' = MapInsert(gpadls, <<c, g>>, GpadlOffered(rpc.token))
                          /\ Len(out') = 1 + BodiesFor(n)
                          /\ \A i \in DOMAIN out' : out'[i].sink = "synic"
                          /\ out'[1].msg.type = "GpadlHeader"
                          /\ out'[1].msg.channel_id = c /\ out'[1].msg.gpadl_id = g
                          /\ out'[1].msg.len = 8 * n
                          /\ out'[1].msg.count = rpc.count
                          /\ Len(out'[1].msg.data) = Min(n, GpadlHeaderMaxDataValues)
                          /\ \A i \in 2 .. Len(out') :
                               /\ out'[i].msg.type = "GpadlBody"
                               /\ out'[i].msg.gpadl_id = g
                               /\ Len(out'[i].msg.data) \in 1 .. GpadlBodyMaxDataValues
                          /\ Payloads(out') = rpc.buf
      ]_vars

\* C17 witness: the longest buffer went out as a header and three bodies, the
\* last body holding the one value left.
C17_Witness ==
    /\ ev.kind = "Gpadl"
    /\ panic = "none"
    /\ Len(out) = 4
    /\ out[1].msg.type = "GpadlHeader"
    /\ out[1].msg.len = 8 * (GpadlHeaderMaxDataValues + 2 * GpadlBodyMaxDataValues + 1)
    /\ Len(out[4].msg.data) = 1
    /\ <<0, 1>> \in DOMAIN gpadls /\ gpadls[<<0, 1>>].kind = "Offered"

GpadlReply(c, g, token, value) ==
    [sink |-> "rpc", msg |-> [rpc |-> "gpadl", channel_id |-> c, gpadl_id |-> g,
                              token |-> token, value |-> value]]

\* C18: a GpadlCreated for a GPADL record in sub-state Offered moves it to
\* Created when the status is success and deletes it otherwise, and either way
\* completes the stored reply sink exactly once with that boolean; a
\* GpadlCreated for an unknown key or for a record in Created or TearingDown
\* completes nothing and leaves every registry unchanged.
C18_GpadlCreated ==
    [][ ev'.kind = "GpadlCreated" =>
        \A c \in ChannelIds, g \in GpadlIds, s \in Statuses :
          SynicMessage(GpadlCreatedMsg(c, g, s), NoOrder)
              => /\ IF <<c, g>> \in DOMAIN gpadls /\ gpadls[<<c, g>>].kind = "Offered"
                    THEN /\ gpadls' = IF s = STATUS_SUCCESS
                                      THEN [gpadls EXCEPT ![<<c, g>>] = GpadlCreated]
                                      ELSE MapRemove(gpadls, <<c, g>>)
                         /\ out' = <<GpadlReply(c, g, gpadls[<<c, g>>].sink,
                                                s = STATUS_SUCCESS)>>
                    ELSE /\ gpadls' = gpadls
                         /\ out' = <<>>
                 /\ UNCHANGED <<state, channels, teardown_gpadls, modify_request,
                                channel_requests>>
                 /\ panic' = "none"
      ]_vars

\* C18 witness: the host failed to create GPADL 1 while GPADL 2 was being torn
\* down; the caller was told false and the record of GPADL 1 is gone.
C18_Witness ==
    /\ ev.kind = "GpadlCreated"
    /\ out = <<GpadlReply(0, 1, 1, FALSE)>>
    /\ DOMAIN gpadls = {<<0, 2>>} /\ gpadls[<<0, 2>>].kind = "TearingDown"

\* C19: a TeardownGpadl request for (channel_id, gpadl_id) whose record exists
\* and is not TearingDown sets the record to TearingDown, inserts
\* teardown_gpadls[gpadl_id] = Some(channel_id) and posts exactly one
\* GpadlTeardown (the insert asserts that the id had no entry; an entry is
\* fatal and nothing is posted).  A request for an unknown key or for a record
\* already TearingDown posts nothing and changes no state, so a caller's
\* requests never get two GpadlTeardown messages posted for one GPADL.
C19_TeardownGpadl ==
    [][ ev'.kind = "TeardownGpadl" =>
        \A c \in DOMAIN channels, via \in Vias, g \in GpadlIds :
          ChannelRequest(c, via, TeardownGpadlRequest(g))
              => IF <<c, g>> \in DOMAIN gpadls /\ gpadls[<<c, g>>].kind # "TearingDown"
                 THEN \/ /\ g \notin DOMAIN teardown_gpadls
                         /\ gpadls' = [gpadls EXCEPT ![<<c, g>>] = GpadlTearingDown]
                         /\ teardown_gpadls' = MapInsert(teardown_gpadls, g, Some(c))
                         /\ out' = <<GpadlTeardownPost(c, g)>>
                         /\ UNCHANGED <<state, channels, modify_request, channel_requests>>
                         /\ panic' = "none"
                      \/ /\ g \in DOMAIN teardown_gpadls
                         /\ out' = <<>>
                         /\ panic' # "none"
                 ELSE /\ out' = <<>>
                      /\ Registries' = Registries
                      /\ state' = state
                      /\ panic' = "none"
      ]_vars

\* C19 witness: the teardown of a created GPADL was posted and recorded.
C19_Witness ==
    /\ ev.kind = "TeardownGpadl"
    /\ <<0, 1>> \in DOMAIN gpadls /\ gpadls[<<0, 1>>] = GpadlTearingDown
    /\ <<0, 2>> \in DOMAIN gpadls /\ gpadls[<<0, 2>>] = GpadlCreated
    /\ teardown_gpadls = (1 :> Some(0))
    /\ out = <<GpadlTeardownPost(0, 1)>>

\* C20: a GpadlTorndown(gpadl_id) removes the teardown_gpadls entry of the id
\* if there is one.  When the entry was Some(channel_id) the GPADL record
\* (channel_id, gpadl_id) is removed and one TeardownGpadl(gpadl_id) response is
\* delivered on that channel's response endpoint; when it was None nothing else
\* happens; when there was no entry no state changes and nothing is delivered.
C20_GpadlTorndown ==
    [][ ev'.kind = "GpadlTorndown" =>
        \A g \in GpadlIds :
          SynicMessage(GpadlTorndown(g), NoOrder)
              => /\ IF g \notin DOMAIN teardown_gpadls
                    THEN /\ out' = <<>>
                         /\ teardown_gpadls' = teardown_gpadls
                         /\ gpadls' = gpadls
                    ELSE /\ teardown_gpadls' = MapRemove(teardown_gpadls, g)
                         /\ IF teardown_gpadls[g] = None
                            THEN /\ out' = <<>>
                                 /\ gpadls' = gpadls
                            ELSE /\ <<teardown_gpadls[g][1], g>> \in DOMAIN gpadls
                                 /\ gpadls' = MapRemove(gpadls, <<teardown_gpadls[g][1], g>>)
                                 /\ out' = <<TeardownGpadlResponse(teardown_gpadls[g][1], g)>>
                 /\ UNCHANGED <<state, channels, modify_request, channel_requests>>
                 /\ panic' = "none"
      ]_vars

\* C20 witness: the host confirmed the teardown a caller asked for; the caller
\* got the response and both the entry and the record of the GPADL are gone,
\* while the other GPADL stays.
C20_Witness ==
    /\ ev.kind = "GpadlTorndown" /\ ev.arg.gpadl_id = 1
    /\ out = <<TeardownGpadlResponse(0, 1)>>
    /\ teardown_gpadls = <<>>
    /\ DOMAIN gpadls = {<<0, 2>>}

UnloadPost == PostOf([type |-> "Unload"])
UnloadReply == [sink |-> "unload", msg |-> [done |-> TRUE]]

\* C21: an Unload request dispatched in a state that has a negotiated version
\* (Connected, RequestingOffers, Disconnecting) moves to Disconnecting with the
\* same version info and posts one Unload; an UnloadComplete sets the state to
\* Disconnected and delivers exactly one unload reply; the connect request
\* dispatched next in that state is admitted (it posts the Copper contact).
C21_Unload ==
    [][ /\ (ev'.kind = "Unload" /\ get_version(state) # None
              /\ ClientRequest([kind |-> "Unload"]))
             => /\ state' = [state EXCEPT !.kind = "Disconnecting"]
                /\ out' = <<UnloadPost>>
                /\ panic' = "none"
        /\ (ev'.kind = "UnloadComplete"
              /\ SynicMessage([type |-> "UnloadComplete"], NoOrder))
             => /\ state' = Disconnected
                /\ out' = <<UnloadReply>>
                /\ panic' = "none"
        /\ \A r \in ContactRequests :
             (ev.kind = "UnloadComplete" /\ ev'.kind = "InitiateContact"
                 /\ ClientRequest(InitiateContactRequest(r)))
                 => /\ out' = <<CopperContact(r)>>
                    /\ state' = Connecting(Copper, r)
      ]_vars

\* C21 witness: the unload of a connection that had a channel completed; the
\* caller got the reply and the client is Disconnected, where a connect is admitted.
C21_Witness ==
    /\ ev.kind = "UnloadComplete"
    /\ state = Disconnected
    /\ out = <<UnloadReply>>
    /\ DOMAIN channels # {}

\* C22: an OfferChannel whose channel id is in the registry creates no record
\* and no request or response endpoints, resets the record's sub-state to
\* Offered, keeps the offer descriptor stored first, and exposes nothing on the
\* offer stream or the notification sink.
C22_DuplicateOffer ==
    [][ ev'.kind = "OfferChannel" =>
        \A c \in DOMAIN channels, p \in OfferPayloads :
          SynicMessage(OfferOf(c, p), NoOrder)
              => /\ channels' = [channels EXCEPT ![c].state = ChannelOffered]
                 /\ channels'[c].offer = channels[c].offer
                 /\ channel_requests' = channel_requests
                 /\ out' = <<>>
                 /\ UNCHANGED <<state, gpadls, teardown_gpadls, modify_request>>
                 /\ panic' = "none"
      ]_vars

\* C22 witness: a second offer for channel 0 arrived while offers were being
\* requested; nothing was exposed and the record is Offered.
C22_Witness ==
    /\ ev.kind = "OfferChannel" /\ ev.arg.channel_id = 0
    /\ state.kind = "RequestingOffers"
    /\ 0 \in DOMAIN channels /\ channels[0].state = ChannelOffered
    /\ out = <<>>

\* ---------------------------------------------------------------- C26

TlConnectPost ==
    [sink |-> "synic",
     msg |-> [type |-> "TlConnectRequest2", service_id |-> HvsockRequest.request.service_id,
              endpoint_id |-> HvsockRequest.request.endpoint_id,
              silo_id |-> HvsockRequest.request.silo_id]]
HvsockNotification(s) ==
    [sink |-> "notify",
     msg |-> [type |-> "HvsockConnectResult", service_id |-> TlConnectResult(s).service_id,
              endpoint_id |-> TlConnectResult(s).endpoint_id, success |-> (s = 0)]]

\* C26: an HvsockConnect request is forwarded as exactly one TlConnectRequest2
\* with the request's service, endpoint and silo id and changes no client
\* state; each TlConnectResult received publishes exactly one
\* HvsockConnectResult on the notification sink with the result's ids and
\* success = (status = 0), in every connection state.
C26_Hvsock ==
    [][ /\ (ev'.kind = "HvsockConnect" /\ ClientRequest(HvsockRequest))
            => /\ out' = <<TlConnectPost>>
               /\ UNCHANGED <<state, modify_request, channels, gpadls, teardown_gpadls,
                              channel_requests, running>>
               /\ panic' = "none"
        /\ ev'.kind = "TlConnectResult" =>
             \A s \in Statuses :
               SynicMessage(TlConnectResult(s), NoOrder)
                 => /\ out' = <<HvsockNotification(s)>>
                    /\ UNCHANGED <<state, modify_request, channels, gpadls,
                                   teardown_gpadls, channel_requests, running>>
                    /\ panic' = "none"
      ]_vars

\* A refused connect was reported: the result with a non-zero status arrived
\* on a connected client and one notification with success = FALSE went out.
C26_Witness ==
    /\ ev.kind = "TlConnectResult"
    /\ state.kind = "Connected"
    /\ out = <<HvsockNotification(STATUS_UNSUCCESSFUL)>>
    /\ ~out[1].msg.success

\* ---------------------------------------------------------------- C30

\* C30: when the caller drops the request endpoint of a channel while the
\* client runs and that channel is Opened, exactly one CloseChannel for it is
\* posted and its sub-state becomes Offered; when the endpoint's channel is
\* Offered or Opening, or is no longer registered (it was rescinded; its
\* endpoint is one of an earlier offer), nothing is posted and no state
\* changes.  In both cases the loop keeps running: it has not returned and
\* has not aborted.  Does not hold: the stream of a rescinded channel keeps
\* the channel's id as its tag, and handle_device_removal looks the id up, so
\* the end of that stream closes the channel offered since under the id.
C30_EndpointDropped ==
    [][ ev'.kind = "Dropped" =>
          LET c == ev'.arg.channel_id
              via == ev'.arg.via
          IN  /\ running /\ running'
              /\ ~exited /\ ~exited'
              /\ panic' = "none"
              /\ IF via = Cur /\ c \in DOMAIN channels /\ channels[c].state.kind = "Opened"
                 THEN /\ out' = <<CloseChannelPost(c)>>
                      /\ channels' = [channels EXCEPT ![c].state = ChannelOffered]
                 ELSE /\ out' = <<>>
                      /\ channels' = channels
              /\ UNCHANGED <<state, modify_request, gpadls, teardown_gpadls>>
      ]_vars

\* ---------------------------------------------------------------- C28

\* C28: in every reachable state, every GPADL record in sub-state TearingDown
\* has an entry in teardown_gpadls under its gpadl id, and that entry is
\* Some(channel id of the record's key); also when two channels use the same
\* gpadl id and one of them is rescinded.
C28_TearingDownIndexed ==
    \A k \in DOMAIN gpadls :
        gpadls[k].kind = "TearingDown"
            => /\ k[2] \in DOMAIN teardown_gpadls
               /\ teardown_gpadls[k[2]] = Some(k[1])

\* ---------------------------------------------------------------- C23

\* C23: a snapshot saved from a connected client, with or without channels,
\* is restored into a fresh instance: the restore succeeds, the restored
\* channels are exposed again with the offers and open bits of the snapshot,
\* and a Save that follows yields a snapshot equal to the first one.
C23_SaveRestoreRoundTrip ==
    [][ /\ (ev'.kind = "Restore" /\ saved # None /\ saved[1].client_state # None)
            => /\ out' = <<[sink |-> "rpc",
                            msg |-> [rpc |-> "restore", ok |-> TRUE,
                                     version |->
                                         Some(VersionInfo(saved[1].client_state[1].version,
                                                          saved[1].client_state[1].feature_flags)),
                                     channels |-> saved[1].channels]]>>
               /\ DOMAIN channels' = {r.offer.channel_id : r \in saved[1].channels}
               /\ \A r \in saved[1].channels :
                      /\ channels'[r.offer.channel_id].offer = r.offer
                      /\ channel_requests'[r.offer.channel_id].cur
        /\ (ev.kind = "Restore" /\ ev'.kind = "Save" /\ saved # None
                /\ saved[1].client_state # None)
            => /\ saved' = saved
               /\ out' = <<[sink |-> "rpc", msg |-> [rpc |-> "save", state |-> saved[1]]]>>
      ]_vars

\* ---------------------------------------------------------------- C25

StopReply == [sink |-> "rpc", msg |-> [rpc |-> "stop"]]

\* The requests that wait on the endpoints of one channel id, oldest first.
Requests(q) == [i \in DOMAIN q |-> q[i].request]

\* C25: a Stop on a running client starts the drain and sends nothing.  While
\* the drain lasts, a step of the loop is the handling of the oldest message
\* the source holds, through the synic message handler, or the end of the
\* drain on EOF (or the abort on a source error): running is true until EOF,
\* where it becomes false and the Stop reply is sent, the only thing of that
\* step.  No facade or channel request is handled in between: their queues
\* lose nothing.  The Stop reply is sent by no other step.
C25_StopDrains ==
    [][ /\ (ev'.kind = "Stop" /\ running /\ panic = "none" /\ ~exited)
          => /\ ev'.src = "task"
             /\ queues' = [queues EXCEPT !.draining = TRUE]
             /\ out' = <<>> /\ running' /\ panic' = "none"
             /\ UNCHANGED <<state, channels, gpadls, teardown_gpadls, modify_request,
                            channel_requests>>
        /\ (queues.draining /\ ev'.src # "env")
          => /\ \/ /\ ev'.src = "synic" /\ queues.synic # <<>>
                   /\ ev'.kind = Head(queues.synic).type
                   /\ queues'.synic = Tail(queues.synic)
                   /\ \E o \in MessageOrders(Task, Head(queues.synic)) :
                         LET t == handle_synic_message(Task, Head(queues.synic), o)
                         IN  /\ state' = t.state /\ channels' = t.channels
                             /\ gpadls' = t.gpadls
                             /\ teardown_gpadls' = t.teardown_gpadls
                             /\ modify_request' = t.modify_request
                             /\ out' = t.out /\ panic' = t.panic
                   /\ panic' = "none" => (queues'.draining /\ running')
                \/ /\ ev' = [src |-> "task", kind |-> "Stopped", arg |-> NoArg]
                   /\ queues.synic = <<>> /\ queues'.synic = <<>>
                   /\ out' = <<StopReply>>
                   /\ ~running' /\ ~queues'.draining /\ panic' = "none"
                   /\ UNCHANGED <<state, channels, gpadls, teardown_gpadls,
                                  modify_request, channel_requests>>
                \/ /\ ev'.src = "synic" /\ ev'.kind = "Error"
                   /\ panic' # "none" /\ out' = <<>>
             /\ queues'.client = queues.client
             /\ \A c \in StreamIds :
                    Requests(queues'.channel[c]) = Requests(queues.channel[c])
        /\ InSeq(out', StopReply)
          => /\ ev'.kind = "Stopped"
             /\ queues.draining /\ queues.synic = <<>>
      ]_vars

\* Stop came while the version response and an offer were waiting, and a
\* request of the facade with them: the drain has handled the two messages,
\* the offer last, the client still counts as running, and the facade's
\* request is still waiting.
C25_Witness ==
    /\ queues.draining /\ running /\ panic = "none"
    /\ ev.src = "synic" /\ ev.kind = "OfferChannel"
    /\ out = <<OfferNotified(channels[OneChannel].offer)>>
    /\ state.kind = "Connected" /\ OneChannel \in DOMAIN channels
    /\ queues.synic = <<>>
    /\ queues.client # <<>>

\* ---------------------------------------------------------------- C24

IsPrefix(a, b) == Len(a) <= Len(b) /\ SubSeq(b, 1, Len(a)) = a
\* What was sent and not yet received is still waiting, in the same order.
StillQueued ==
    /\ IsPrefix(queues.client, queues'.client)
    /\ IsPrefix(queues.synic, queues'.synic)
    /\ \A c \in StreamIds : IsPrefix(queues.channel[c], queues'.channel[c])

\* The registries and the connection state.
Connection == <<state, channels, gpadls, teardown_gpadls, modify_request, channel_requests>>

\* While the client runs, what the loop receives from a queue is the oldest
\* request or message waiting there (for a channel: on that endpoint), and it
\* leaves the queue.
OldestFirst ==
    /\ (running /\ ev'.src = "client" /\ queues.client # <<>>)
        => /\ ev'.kind = Head(queues.client).kind
           /\ queues'.client = Tail(queues.client)
    /\ (running /\ ev'.src = "synic" /\ queues.synic # <<>>)
        => /\ ev'.kind = Head(queues.synic).type
           /\ queues'.synic = Tail(queues.synic)
    /\ (running /\ ev'.src = "channel" /\ ev'.kind # "Dropped"
            /\ OnVia(queues.channel[ev'.arg.channel_id], ev'.arg.via) # <<>>)
        => LET waiting == OnVia(queues.channel[ev'.arg.channel_id], ev'.arg.via)
           IN  /\ ev'.kind = waiting[1].request.kind
               /\ OnVia(queues'.channel[ev'.arg.channel_id], ev'.arg.via) = Tail(waiting)

C27_LoopTerminates ==
    /\ [][ /\ (ev'.kind = "Closed" /\ ev'.src = "task") => (~exited /\ exited')
           /\ (~exited /\ exited')
                => /\ ev'.kind = "Closed"
                   /\ \/ ev'.src = "task"
                      \/ /\ ev'.src = "client"
                         /\ running /\ queues.client_closed /\ queues.client = <<>>
                   /\ UNCHANGED <<state, running, modify_request, channels, gpadls,
                                  teardown_gpadls, channel_requests, queues, panic>>
                   /\ out' = <<>>
           /\ exited => UNCHANGED vars
         ]_vars
    /\ (queues.client_closed /\ running /\ panic = "none")
           ~> (exited \/ ~running \/ panic # "none")

\* The facade went away while the client was connected and running, and the
\* loop has ended.
C27_Witness ==
    /\ exited /\ running
    /\ ev = [src |-> "client", kind |-> "Closed", arg |-> NoArg]
    /\ state.kind = "Connected"
    /\ queues.client_closed

\* ---------------------------------------------------------------- C29

IsGpadlPost(e, g) ==
    e.sink = "synic" /\ e.msg.type \in {"GpadlHeader", "GpadlBody"} /\ e.msg.gpadl_id = g

\* C29: a step of the loop dispatches one event, and out holds what that
\* event sent, in the order of the sends: the wire carries the messages of the
\* first event dispatched, then those of the second, and so on.  The requests
\* waiting on a channel's endpoint are dispatched oldest first, and the step
\* sends what the handler of that one request sends: a GPADL's header is
\* followed by its bodies and nothing else, and a rescind posts the
\* GpadlTeardown messages of the channel and then, last, its RelIdReleased.
C29_Ordering ==
    [][ /\ (ev'.src = "channel" /\ ev'.kind # "Dropped"
                /\ OnVia(queues.channel[ev'.arg.channel_id], ev'.arg.via) # <<>>)
            => LET c == ev'.arg.channel_id
                   via == ev'.arg.via
                   request == OnVia(queues.channel[c], via)[1].request
               IN  /\ OnVia(queues'.channel[c], via) = Tail(OnVia(queues.channel[c], via))
                   /\ \A w \in Vias \ {via} :
                          OnVia(queues'.channel[c], w) = OnVia(queues.channel[c], w)
                   /\ ev'.kind = request.kind
                   /\ out' = handle_channel_request(Task, c, request).out
        /\ (ev'.kind = "Gpadl" /\ panic' = "none" /\ out' # <<>>)
            => /\ out'[1].msg.type = "GpadlHeader"
               /\ \A i \in DOMAIN out' : IsGpadlPost(out'[i], out'[1].msg.gpadl_id)
               /\ \A i \in 2 .. Len(out') : out'[i].msg.type = "GpadlBody"
        /\ (ev'.kind = "RescindChannelOffer" /\ panic' = "none")
            => LET c == ev'.arg.channel_id
                   posts == Posted(out')
               IN  /\ posts # <<>>
                   /\ Last(posts) = RelIdReleased(c)
                   /\ \A i \in 1 .. Len(posts) - 1 :
                          /\ IsGpadlTeardownPost(posts[i])
                          /\ posts[i].msg.channel_id = c
      ]_vars

\* Two requests waited on the endpoint of channel 0.  The older one, the
\* GPADL, was dispatched: its header and its body went out one after the
\* other, and the teardown is still waiting.
C29_Witness ==
    /\ ev.src = "channel" /\ ev.kind = "Gpadl" /\ panic = "none"
    /\ Len(out) = 2
    /\ out[1].msg.type = "GpadlHeader" /\ out[2].msg.type = "GpadlBody"
    /\ queues.channel[OneChannel] =
           <<[via |-> Cur, request |-> TeardownGpadlRequest(OneGpadl)]>>

\* C31: a request sent on, or the dropping of, a request endpoint that was
\* handed out before the channel's rescind leaves a channel offered again under
\* the same id alone: the channel's record is unchanged and nothing is posted
\* to the host.
C31_RescindCancelsStream ==
    [][(/\ ev'.src = "channel"
        /\ ev'.arg.via # Cur
        /\ ev'.arg.channel_id \in DOMAIN channels)
       => /\ ev'.arg.channel_id \in DOMAIN channels'
          /\ channels'[ev'.arg.channel_id] = channels[ev'.arg.channel_id]
          /\ Posted(out') = <<>>]_vars

\* ---------------------------------------------------------------- C32

\* C32 as stated: the step that handles the end of a channel's request stream
\* leaves the event loop.
C32_DropEndsLoop ==
    [][ev'.kind = "Dropped" => exited']_vars

\* C32 as amended: the end of a channel's request stream ends that stream
\* only.  The loop has not exited, is still running and has not aborted, and
\* every other request stream is still in the set.
C32_DropKeepsLoop ==
    [][ ev'.kind = "Dropped" =>
          LET c == ev'.arg.channel_id
              via == ev'.arg.via
          IN  /\ ~exited' /\ running' /\ panic' = "none"
              /\ channel_requests' =
                     [channel_requests EXCEPT ![c] =
                         IF via = Cur THEN [@ EXCEPT !.cur = FALSE]
                         ELSE [@ EXCEPT !.stale = @ - 1]]
      ]_vars

\* The endpoint of an earlier offer was dropped: the loop is still serving, and
\* the stream of the channel offered since is still in the set.
C32_Witness ==
    /\ ev.kind = "Dropped" /\ ev.arg.via # Cur
    /\ ~exited /\ running /\ panic = "none"
    /\ channel_requests[OneChannel] = [cur |-> TRUE, stale |-> 0]
    /\ OneChannel \in DOMAIN channels

\* ---------------------------------------------------------------- C33

\* C33: a VersionResponse handled while the connection state is not Connecting
\* is ignored: the connection state, with its negotiated version, is
\* unchanged, nothing is sent on the connect channel and nothing is posted.
C33_StrayVersionResponse ==
    [][ (ev'.src = "synic" /\ IsVersionResponse(ev'.kind)
         /\ state.kind # "Connecting")
        => /\ state' = state
           /\ get_version(state') = get_version(state)
           /\ ConnectReplies(out') = <<>>
           /\ Posted(out') = <<>>
      ]_vars

\* ---------------------------------------------------------------- C34

\* C34: with every gpadl id in use on one channel at a time, a TeardownGpadl
\* request that finds its record present and not TearingDown finds no entry for
\* the gpadl id in teardown_gpadls, so the handler's uniqueness assertion holds
\* and the task does not abort.
C34_TeardownAssertion ==
    [][ (/\ ev'.src = "channel" /\ ev'.kind = "TeardownGpadl"
         /\ \E c \in StreamIds, g \in GpadlIds :
              /\ ChannelRequest(c, ev'.arg.via, TeardownGpadlRequest(g))
              /\ <<c, g>> \in DOMAIN gpadls
              /\ gpadls[<<c, g>>].kind # "TearingDown"
              /\ \A k \in DOMAIN gpadls : k[2] = g => k[1] = c)
        => /\ \A g \in GpadlIds :
                (\E c \in StreamIds :
                    /\ ChannelRequest(c, ev'.arg.via, TeardownGpadlRequest(g))
                    /\ <<c, g>> \in DOMAIN gpadls)
                => g \notin DOMAIN teardown_gpadls
           /\ panic' = "none"
      ]_vars

\* ---------------------------------------------------------------- C35

\* C35: in every reachable state, a teardown_gpadls entry Some(c) under gpadl
\* id g has channel c in the channel registry and a GPADL record (c, g) in
\* sub-state TearingDown, which is what handle_gpadl_torndown relies on.
\* No step aborts with one of that handler's three failures.
C35_TeardownEntries ==
    /\ \A g \in DOMAIN teardown_gpadls :
          teardown_gpadls[g] # None =>
              LET c == teardown_gpadls[g][1]
              IN  /\ c \in DOMAIN channels
                  /\ <<c, g>> \in DOMAIN gpadls
                  /\ gpadls[<<c, g>>].kind = "TearingDown"
    /\ panic \notin {"gpadl validated above",
                     "gpadl should be tearing down if in teardown list",
                     "no channel for torn down gpadl"}

\* A rescind of one channel happened while a teardown of the other channel's
\* GPADL was waiting for the host: the entry names that channel.
C35_Witness ==
    /\ ev.kind = "RescindChannelOffer"
    /\ OneGpadl \in DOMAIN teardown_gpadls
    /\ teardown_gpadls[OneGpadl] # None
    /\ panic = "none"

\* ---------------------------------------------------------------- C36

\* C36: in every reachable state (no restore takes place in this
\* specification), the channel id in the key of every GPADL record is the id
\* of a record in the channel registry.
C36_GpadlChannelRegistered ==
    \A k \in DOMAIN gpadls : k[1] \in DOMAIN channels

\* A channel with a GPADL was rescinded, which posted the GPADL's teardown,
\* while the other channel holds a GPADL: that record stays, with its channel.
C36_Witness ==
    /\ ev.kind = "RescindChannelOffer"
    /\ InSeq(out, GpadlTeardownPost(ev.arg.channel_id, OneGpadl))
    /\ ev.arg.channel_id \notin DOMAIN channels
    /\ DOMAIN gpadls # {}
    /\ panic = "none"

\* ---------------------------------------------------------------- C37

\* An accepted TeardownGpadl request for (c, g) is waiting for its response.
TearingDown(c, g) ==
    <<c, g>> \in DOMAIN gpadls /\ gpadls[<<c, g>>].kind = "TearingDown"

\* C37: with a host that answers and a client that keeps running, an accepted
\* TeardownGpadl request for (c, g) gets its response: the request stops
\* waiting; the step that ends the wait is the handling of GpadlTorndown(g) or
\* of the rescind of channel c and sends exactly one TeardownGpadl(g) response
\* for channel c; and no other step sends such a response.
C37_TeardownAnswered ==
    /\ [][\A c \in StreamIds, g \in GpadlIds :
            IF TearingDown(c, g) /\ ~TearingDown(c, g)' /\ panic' = "none"
            THEN /\ Count(out', TeardownGpadlResponse(c, g)) = 1
                 /\ \/ ev'.kind = "GpadlTorndown" /\ ev'.arg.gpadl_id = g
                    \/ ev'.kind = "RescindChannelOffer" /\ ev'.arg.channel_id = c
            ELSE Count(out', TeardownGpadlResponse(c, g)) = 0]_vars
    /\ \A c \in StreamIds, g \in GpadlIds :
          (TearingDown(c, g) /\ panic = "none")
              ~> (~TearingDown(c, g) \/ panic # "none")

\* ---------------------------------------------------------------- C38

\* C38: a Stop handled while the client runs completes when the source
\* honours the pause contract: the drain ends with the reply sent and running
\* false.  While the drain is in progress the loop handles no lifecycle
\* command and nothing but the source's queued messages, and it leaves the
\* drain only on the source's EOF, so without EOF it stays there.
C38_StopCompletes ==
    /\ [][queues.draining =>
            \/ /\ ev'.src \in {"synic", "env"}
               /\ queues'.draining
               /\ running'
            \/ /\ ev'.src = "synic"
               /\ panic' # "none"
            \/ /\ ev'.src = "task" /\ ev'.kind = "Stopped"
               /\ queues.synic = <<>>
               /\ ~queues'.draining
               /\ ~running'
               /\ out' = <<StopReply>>]_vars
    /\ queues.draining
          ~> ((ev.kind = "Stopped" /\ ~running /\ out = <<StopReply>>) \/ panic # "none")

\* The drain handled a message that was waiting, then the stop completed.
C38_Witness ==
    /\ ev.kind = "Stopped"
    /\ ~running /\ ~queues.draining
    /\ out = <<StopReply>>
    /\ queues.synic = <<>>
    /\ state.kind = "Connected"

\* ---------------------------------------------------------------- C39

\* The sub-state of channel c was Opening and is another one, in a record
\* that stays in the registry.
OpeningLeft(c) ==
    /\ c \in DOMAIN channels /\ channels[c].state.kind = "Opening"
    /\ c \in DOMAIN channels' /\ channels'[c].state # channels[c].state

\* The step handled OpenResult for c and completed the sink that was held.
OpeningCompleted(c) ==
    /\ ev'.src = "synic" /\ ev'.kind = "OpenResult" /\ ev'.arg.channel_id = c
    /\ \E value \in BOOLEAN :
           /\ out' = <<OpenReply(c, channels[c].state.sink, value)>>
           /\ channels'[c].state = IF value THEN ChannelOpened ELSE ChannelOffered

\* C39 as stated: while the record stays in the registry, the sink held in
\* Opening leaves it only completed with the outcome of an OpenResult.
C39_OpeningSinkCompleted ==
    [][\A c \in StreamIds : OpeningLeft(c) => OpeningCompleted(c)]_vars

\* C39 as amended: the sink held in Opening leaves the record completed with
\* the outcome of an OpenResult, or discarded uncompleted by a duplicate
\* OfferChannel for the id, which resets the sub-state to Offered and sends
\* nothing.  No other event takes it out of the record.
C39_OpeningSinkLeaves ==
    [][\A c \in StreamIds :
          OpeningLeft(c) =>
              \/ OpeningCompleted(c)
              \/ /\ ev'.src = "synic" /\ ev'.kind = "OfferChannel"
                 /\ ev'.arg.channel_id = c
                 /\ channels'[c].state = ChannelOffered
                 /\ out' = <<>>]_vars

\* An OpenResult arrived for a channel in Opening and completed the sink that
\* the record held.
C39_Witness ==
    /\ ev.kind = "OpenResult"
    /\ \E c \in DOMAIN channels, token \in {1, 2}, value \in BOOLEAN :
           out = <<OpenReply(c, token, value)>>
    /\ panic = "none"

\* ---------------------------------------------------------------- C40

\* C40: an Unload request and an UnloadComplete message that are handled
\* change the connection state only: the channel registry with every
\* sub-state, the GPADL registry, teardown_gpadls and a pending
\* modify-connection request are unchanged, and so are they when the client
\* connects again, so the channels offered before are still registered.
C40_UnloadFrame ==
    [][ (/\ \/ ev'.src = "client" /\ ev'.kind \in {"Unload", "InitiateContact"}
            \/ ev'.src = "synic" /\ ev'.kind = "UnloadComplete"
         /\ panic' = "none")
        => UNCHANGED <<channels, gpadls, teardown_gpadls, modify_request,
                       channel_requests>>
      ]_vars

\* An unload completed on a client that holds an Opened channel, a GPADL and
\* a pending modify-connection request: they are all still there.
C40_Witness ==
    /\ ev.kind = "UnloadComplete"
    /\ state = Disconnected
    /\ OneChannel \in DOMAIN channels /\ channels[OneChannel].state = ChannelOpened
    /\ DOMAIN gpadls # {}
    /\ modify_request # None
    /\ panic = "none"

====
